---------------------------- MODULE Spec2Model ----------------------------
(***************************************************************************)
(* utm-toolkit: key normalizer, extractor, session store and URL injector. *)
(*                                                                         *)
(* Keys are sequences of one-character strings, because the converters and *)
(* the key predicates work character by character.  Values are strings;    *)
(* undefined and a non-string JSON value are two reserved markers.         *)
(* A parameter set (a JavaScript object) is a sequence of [k, v] pairs     *)
(* with distinct keys, in insertion order.                                 *)
(***************************************************************************)
EXTENDS Integers, Sequences, FiniteSets, TLC

VARIABLES
    args,      \* the arguments of the call under consideration
    ret,       \* what the call returned (NoRet before it ran)
    storage,   \* sessionStorage: slot name -> stored text (Absent when unset)
    avail      \* the condition of sessionStorage in this environment

vars == <<args, ret, storage, avail>>

-----------------------------------------------------------------------------
(* Bounds *)

MaxSuffix == 3      \* longest key suffix after "utm" in the key universe
MaxPieces == 2      \* most "&"-separated pieces in a URL, query and fragment together
MaxParams == 2      \* most entries of a parameter set handed to the injector

-----------------------------------------------------------------------------
(* Characters *)

LowerCase == <<"a","b","c","d","e","f","g","h","i","j","k","l","m",
               "n","o","p","q","r","s","t","u","v","w","x","y","z">>
UpperCase == <<"A","B","C","D","E","F","G","H","I","J","K","L","M",
               "N","O","P","Q","R","S","T","U","V","W","X","Y","Z">>

IsUpper(c) == \E i \in 1..26 : UpperCase[i] = c
IsLower(c) == \E i \in 1..26 : LowerCase[i] = c
ToLower(c) == IF IsUpper(c) THEN LowerCase[CHOOSE i \in 1..26 : UpperCase[i] = c] ELSE c
ToUpper(c) == IF IsLower(c) THEN UpperCase[CHOOSE i \in 1..26 : LowerCase[i] = c] ELSE c

StartsWith(s, p) == Len(s) >= Len(p) /\ SubSeq(s, 1, Len(p)) = p

utm  == <<"u","t","m">>
utm_ == <<"u","t","m","_">>

-----------------------------------------------------------------------------
(* Standard key tables *)

utm_source   == <<"u","t","m","_","s","o","u","r","c","e">>
utm_medium   == <<"u","t","m","_","m","e","d","i","u","m">>
utm_campaign == <<"u","t","m","_","c","a","m","p","a","i","g","n">>
utm_term     == <<"u","t","m","_","t","e","r","m">>
utm_content  == <<"u","t","m","_","c","o","n","t","e","n","t">>
utm_id       == <<"u","t","m","_","i","d">>
utmSource    == <<"u","t","m","S","o","u","r","c","e">>
utmMedium    == <<"u","t","m","M","e","d","i","u","m">>
utmCampaign  == <<"u","t","m","C","a","m","p","a","i","g","n">>
utmTerm      == <<"u","t","m","T","e","r","m">>
utmContent   == <<"u","t","m","C","o","n","t","e","n","t">>
utmId        == <<"u","t","m","I","d">>

STANDARD_SNAKE_KEYS ==
    {utm_source, utm_medium, utm_campaign, utm_term, utm_content, utm_id}
STANDARD_CAMEL_KEYS ==
    {utmSource, utmMedium, utmCampaign, utmTerm, utmContent, utmId}

SNAKE_TO_CAMEL(k) ==
    CASE k = utm_source   -> utmSource
      [] k = utm_medium   -> utmMedium
      [] k = utm_campaign -> utmCampaign
      [] k = utm_term     -> utmTerm
      [] k = utm_content  -> utmContent
      [] k = utm_id       -> utmId

CAMEL_TO_SNAKE(k) ==
    CASE k = utmSource   -> utm_source
      [] k = utmMedium   -> utm_medium
      [] k = utmCampaign -> utm_campaign
      [] k = utmTerm     -> utm_term
      [] k = utmContent  -> utm_content
      [] k = utmId       -> utm_id

\* Both tables are object literals, so "key in TABLE" also holds for the names
\* they inherit from Object.prototype, and TABLE[key] is then the inherited
\* member (a function), not a string.
k_constructor == <<"c","o","n","s","t","r","u","c","t","o","r">>
k_toString    == <<"t","o","S","t","r","i","n","g">>

ObjectPrototypeKeys == {k_constructor, k_toString}

InheritedMember == <<"[inherited member]">>

\* key in TABLE, for a table with the given own keys
HasProperty(key, ownKeys) == key \in ownKeys \cup ObjectPrototypeKeys

-----------------------------------------------------------------------------
(* Key converters *)

\* rest.replace(/([A-Z])/g, '_$1').toLowerCase()
RECURSIVE SnakeRest(_)
SnakeRest(s) ==
    IF s = <<>> THEN <<>>
    ELSE IF IsUpper(Head(s)) THEN <<"_", ToLower(Head(s))>> \o SnakeRest(Tail(s))
    ELSE <<ToLower(Head(s))>> \o SnakeRest(Tail(s))

toSnakeCase(key) ==
    IF HasProperty(key, STANDARD_CAMEL_KEYS)
    THEN IF key \in STANDARD_CAMEL_KEYS THEN CAMEL_TO_SNAKE(key) ELSE InheritedMember
    ELSE IF StartsWith(key, utm) /\ Len(key) > 3
         THEN utm \o SnakeRest(SubSeq(key, 4, Len(key)))
    ELSE key

\* rest.replace(/_([a-z])/g, (_, char) => char.toUpperCase())
RECURSIVE CamelRest(_)
CamelRest(s) ==
    IF s = <<>> THEN <<>>
    ELSE IF Head(s) = "_" /\ Len(s) >= 2 /\ IsLower(s[2])
         THEN <<ToUpper(s[2])>> \o CamelRest(SubSeq(s, 3, Len(s)))
    ELSE <<Head(s)>> \o CamelRest(Tail(s))

\* faulty variant: the first letter of the suffix is not capitalised
toCamelCase_NoCapital(key) ==
    IF HasProperty(key, STANDARD_SNAKE_KEYS)
    THEN IF key \in STANDARD_SNAKE_KEYS THEN SNAKE_TO_CAMEL(key) ELSE InheritedMember
    ELSE IF StartsWith(key, utm_) /\ Len(key) > 4
         THEN utm \o CamelRest(SubSeq(key, 5, Len(key)))
    ELSE key

toCamelCase(key) ==
    IF HasProperty(key, STANDARD_SNAKE_KEYS)
    THEN IF key \in STANDARD_SNAKE_KEYS THEN SNAKE_TO_CAMEL(key) ELSE InheritedMember
    ELSE IF StartsWith(key, utm_) /\ Len(key) > 4
         THEN LET camelRest == CamelRest(SubSeq(key, 5, Len(key)))
              IN  utm \o <<ToUpper(Head(camelRest))>> \o Tail(camelRest)
    ELSE key

isSnakeCaseUtmKey(key) == StartsWith(key, utm_)

isCamelCaseUtmKey(key) ==
    IF ~StartsWith(key, utm) \/ Len(key) <= 3 THEN FALSE
    ELSE IsUpper(key[4])

isUtmKey(key) == isSnakeCaseUtmKey(key) \/ isCamelCaseUtmKey(key)

-----------------------------------------------------------------------------
(* Key universe of the key-normalizer specification *)

KeyChars == {"a", "b", "A", "_", "1"}

RECURSIVE SeqsUpTo(_, _)
SeqsUpTo(S, n) ==
    IF n = 0 THEN {<<>>}
    ELSE LET shorter == SeqsUpTo(S, n - 1)
         IN  shorter \cup {Append(s, c) : s \in {t \in shorter : Len(t) = n - 1}, c \in S}

k_ref   == <<"r","e","f">>
k_UTM_a == <<"U","T","M","_","a">>
k_utm_a == <<"u","t","m","_","a">>
k_utm_b == <<"u","t","m","_","b">>
k_utmA  == <<"u","t","m","A">>
k_utm_1 == <<"u","t","m","_","1">>
k_utm_A == <<"u","t","m","_","A">>
k_utm_team_id == <<"u","t","m","_","t","e","a","m","_","i","d">>
k_utmTeamId   == <<"u","t","m","T","e","a","m","I","d">>

KeyUniverse ==
    {utm \o s : s \in SeqsUpTo(KeyChars, MaxSuffix)}
        \cup STANDARD_SNAKE_KEYS \cup STANDARD_CAMEL_KEYS
        \cup {k_ref, k_UTM_a, k_utm_team_id, k_utmTeamId}
        \cup ObjectPrototypeKeys

-----------------------------------------------------------------------------
(* Values and parameter sets (JavaScript objects with insertion order) *)

Undefined == "<undefined>"     \* the JavaScript value undefined
NonString == "<number>"        \* a JSON value that is not a string

Keys(obj) == {obj[i].k : i \in DOMAIN obj}
HasKey(obj, k) == \E i \in DOMAIN obj : obj[i].k = k
Get(obj, k) == IF HasKey(obj, k) THEN obj[CHOOSE i \in DOMAIN obj : obj[i].k = k].v ELSE Undefined

\* obj[k] = v : an existing property keeps its position, a new one goes last
ObjSet(obj, k, v) ==
    IF HasKey(obj, k)
    THEN [i \in DOMAIN obj |-> IF obj[i].k = k THEN [k |-> k, v |-> v] ELSE obj[i]]
    ELSE Append(obj, [k |-> k, v |-> v])

\* faulty variant: of two entries that take the same key the first is kept
RECURSIVE ConvertFrom_KeepFirst(_, _, _)
ConvertFrom_KeepFirst(result, entries, targetFormat) ==
    IF entries = <<>> THEN result
    ELSE LET e == Head(entries)
             newKey == IF targetFormat = "snake_case" THEN toSnakeCase(e.k) ELSE toCamelCase(e.k)
         IN  IF e.v # Undefined /\ ~HasKey(result, newKey)
             THEN ConvertFrom_KeepFirst(ObjSet(result, newKey, e.v), Tail(entries), targetFormat)
             ELSE ConvertFrom_KeepFirst(result, Tail(entries), targetFormat)

convertParams_KeepFirst(params, targetFormat) == ConvertFrom_KeepFirst(<<>>, params, targetFormat)

RECURSIVE ConvertFrom(_, _, _)
ConvertFrom(result, entries, targetFormat) ==
    IF entries = <<>> THEN result
    ELSE LET e == Head(entries)
             newKey == IF targetFormat = "snake_case" THEN toSnakeCase(e.k) ELSE toCamelCase(e.k)
         IN  IF e.v # Undefined
             THEN ConvertFrom(ObjSet(result, newKey, e.v), Tail(entries), targetFormat)
             ELSE ConvertFrom(result, Tail(entries), targetFormat)

convertParams(params, targetFormat) == ConvertFrom(<<>>, params, targetFormat)

toSnakeCaseParams(params) == convertParams(params, "snake_case")

-----------------------------------------------------------------------------
(* URLs.                                                                   *)
(* A URL string is [base, query, frag]: base is the text before the query, *)
(* query and frag are the texts after "?" and "#" as sequences of          *)
(* "&"-separated pieces [k, v, eq]; eq tells whether the piece is written  *)
(* with "=" ("k=v", "k=") or as a bare key ("k").  Keys and values are     *)
(* drawn from unreserved characters, which both percent-encoders and the   *)
(* decoder leave as they are.                                              *)

Piece(k, v, eq) == [k |-> k, v |-> v, eq |-> eq]

\* new URL(base): the components of the bases of the model; anything else throws
ParseableBases ==
    {"https://example.com", "https://example.com/",
     "https://u:p@example.com/p", "https://example.com/p"}

ParseBase(base) ==
    CASE base = "https://example.com" ->
            [protocol |-> "https:", userinfo |-> "", host |-> "example.com", pathname |-> "/"]
      [] base = "https://example.com/" ->
            [protocol |-> "https:", userinfo |-> "", host |-> "example.com", pathname |-> "/"]
      [] base = "https://u:p@example.com/p" ->
            [protocol |-> "https:", userinfo |-> "u:p@", host |-> "example.com", pathname |-> "/p"]
      [] base = "https://example.com/p" ->
            [protocol |-> "https:", userinfo |-> "", host |-> "example.com", pathname |-> "/p"]

Parseable(url) == url.base \in ParseableBases

\* new URLSearchParams(text): the list of decoded [k, v] pairs
URLSearchParams(text) == [i \in DOMAIN text |-> [k |-> text[i].k, v |-> text[i].v]]

\* URLSearchParams.prototype.toString(): every pair is written "k=v"
SearchParamsToString(list) == [i \in DOMAIN list |-> Piece(list[i].k, list[i].v, TRUE)]

SearchParamsHas(list, key) == \E i \in DOMAIN list : list[i].k = key

SearchParamsDelete(list, key) == SelectSeq(list, LAMBDA e : e.k # key)

\* set(): the first pair named key takes the value, the others go; else append
SearchParamsSet(list, key, value) ==
    IF SearchParamsHas(list, key)
    THEN LET first == CHOOSE i \in DOMAIN list :
                          list[i].k = key /\ \A j \in 1..(i - 1) : list[j].k # key
             kept == [i \in DOMAIN list |->
                          IF i = first THEN [k |-> key, v |-> value, keep |-> TRUE]
                          ELSE [k |-> list[i].k, v |-> list[i].v, keep |-> list[i].k # key]]
             left == SelectSeq(kept, LAMBDA e : e.keep)
         IN  [i \in DOMAIN left |-> [k |-> left[i].k, v |-> left[i].v]]
    ELSE Append(list, [k |-> key, v |-> value])

RECURSIVE DeleteKeys(_, _)
DeleteKeys(list, keys) ==
    IF keys = <<>> THEN list
    ELSE DeleteKeys(SearchParamsDelete(list, Head(keys).k), Tail(keys))

\* text.includes('=')
IncludesEq(text) == \E i \in DOMAIN text : text[i].eq

\* new URL(url): searchParams is the parsed query; query and hash are the texts
NewURL(url) ==
    LET b == ParseBase(url.base)
    IN  [protocol |-> b.protocol, userinfo |-> b.userinfo, host |-> b.host,
         pathname |-> b.pathname, searchParams |-> URLSearchParams(url.query),
         query |-> url.query, hash |-> url.frag]

\* URL.prototype.toString(): the href
Href(urlObj) ==
    [base  |-> urlObj.protocol \o "//" \o urlObj.userinfo \o urlObj.host \o urlObj.pathname,
     query |-> urlObj.query, frag |-> urlObj.hash]

-----------------------------------------------------------------------------
(* URL injector *)

\* faulty variant: the standard encoding, which writes "=" after every key
buildQueryString_AlwaysEq(params) ==
    [i \in DOMAIN params |-> Piece(params[i].k, params[i].v, TRUE)]

\* "key=value" for a non-empty value, the key alone for an empty one
buildQueryString(params) ==
    [i \in DOMAIN params |-> Piece(params[i].k, params[i].v, params[i].v # "")]

isAnyUtmKey(key) == isSnakeCaseUtmKey(key) \/ isCamelCaseUtmKey(key)

hasValidUtmEntries(params) ==
    \E i \in DOMAIN params :
        isAnyUtmKey(params[i].k) /\ params[i].v # Undefined /\ params[i].v # ""

\* faulty variant: the loop appends without removing the existing occurrences
RECURSIVE WriteParams_AppendOnly(_, _, _)
WriteParams_AppendOnly(list, params, preserveExisting) ==
    IF params = <<>> THEN list
    ELSE LET e == Head(params)
         IN  IF e.v = Undefined
             THEN WriteParams_AppendOnly(list, Tail(params), preserveExisting)
             ELSE IF preserveExisting /\ SearchParamsHas(list, e.k)
             THEN WriteParams_AppendOnly(list, Tail(params), preserveExisting)
             ELSE WriteParams_AppendOnly(Append(list, [k |-> e.k, v |-> e.v]),
                                         Tail(params), preserveExisting)

\* faulty variant: preserveExisting is ignored, an existing value is always replaced
RECURSIVE WriteParams_AlwaysReplace(_, _, _)
WriteParams_AlwaysReplace(list, params, preserveExisting) ==
    IF params = <<>> THEN list
    ELSE LET e == Head(params)
         IN  IF e.v = Undefined
             THEN WriteParams_AlwaysReplace(list, Tail(params), preserveExisting)
             ELSE WriteParams_AlwaysReplace(
                      SearchParamsSet(SearchParamsDelete(list, e.k), e.k, e.v),
                      Tail(params), preserveExisting)

\* for (const [key, value] of Object.entries(params)) { ... delete; set }
RECURSIVE WriteParams(_, _, _)
WriteParams(list, params, preserveExisting) ==
    IF params = <<>> THEN list
    ELSE LET e == Head(params)
         IN  IF e.v = Undefined
             THEN WriteParams(list, Tail(params), preserveExisting)
             ELSE IF preserveExisting /\ SearchParamsHas(list, e.k)
             THEN WriteParams(list, Tail(params), preserveExisting)
             ELSE WriteParams(SearchParamsSet(SearchParamsDelete(list, e.k), e.k, e.v),
                              Tail(params), preserveExisting)

\* faulty variant: the fragment is not purged of the injected keys
appendToQuery_KeepFragment(urlObj, params, preserveExisting) ==
    LET searchParams == WriteParams(urlObj.searchParams, params, preserveExisting)
    IN  [base  |-> urlObj.protocol \o "//" \o urlObj.host \o urlObj.pathname,
         query |-> buildQueryString(searchParams),
         frag  |-> urlObj.hash]

appendToQuery(urlObj, params, preserveExisting) ==
    LET hash == IF urlObj.hash # <<>> /\ IncludesEq(urlObj.hash)
                THEN SearchParamsToString(DeleteKeys(URLSearchParams(urlObj.hash), params))
                ELSE urlObj.hash
        searchParams == WriteParams(urlObj.searchParams, params, preserveExisting)
    IN  [base  |-> urlObj.protocol \o "//" \o urlObj.host \o urlObj.pathname,
         query |-> buildQueryString(searchParams),
         frag  |-> hash]

\* faulty variant: preserveExisting is ignored, the fragment's value is always replaced
appendToFragment_AlwaysReplace(urlObj, params, preserveExisting) ==
    LET searchParams == DeleteKeys(urlObj.searchParams, params)
        query == IF params = <<>> THEN urlObj.query ELSE SearchParamsToString(searchParams)
        fragmentParams == WriteParams(URLSearchParams(urlObj.hash), params, FALSE)
    IN  Href([urlObj EXCEPT !.searchParams = searchParams, !.query = query,
                            !.hash = buildQueryString(fragmentParams)])

\* faulty variant: the fragment is written anew instead of being merged
appendToFragment_NewFragment(urlObj, params, preserveExisting) ==
    LET searchParams == DeleteKeys(urlObj.searchParams, params)
        query == IF params = <<>> THEN urlObj.query ELSE SearchParamsToString(searchParams)
        fragmentParams == WriteParams(<<>>, params, preserveExisting)
    IN  Href([urlObj EXCEPT !.searchParams = searchParams, !.query = query,
                            !.hash = buildQueryString(fragmentParams)])

appendToFragment(urlObj, params, preserveExisting) ==
    LET searchParams == DeleteKeys(urlObj.searchParams, params)
        \* every searchParams.delete() rewrites the URL's query from the list
        query == IF params = <<>> THEN urlObj.query ELSE SearchParamsToString(searchParams)
        fragmentParams == WriteParams(URLSearchParams(urlObj.hash), params, preserveExisting)
    IN  Href([urlObj EXCEPT !.searchParams = searchParams, !.query = query,
                            !.hash = buildQueryString(fragmentParams)])

appendUtmParameters(url, utmParams, toFragment, preserveExisting) ==
    IF ~hasValidUtmEntries(utmParams) THEN url
    ELSE IF ~Parseable(url) THEN url
    ELSE IF toFragment
         THEN appendToFragment(NewURL(url), toSnakeCaseParams(utmParams), preserveExisting)
         ELSE appendToQuery(NewURL(url), toSnakeCaseParams(utmParams), preserveExisting)

RECURSIVE CollectSnake(_, _)
CollectSnake(params, list) ==
    IF list = <<>> THEN params
    ELSE CollectSnake(IF isSnakeCaseUtmKey(Head(list).k)
                      THEN ObjSet(params, Head(list).k, Head(list).v)
                      ELSE params,
                      Tail(list))

\* faulty variant: only the query is read
extractUtmParameters_QueryOnly(url) ==
    IF ~Parseable(url) THEN <<>>
    ELSE CollectSnake(<<>>, NewURL(url).searchParams)

\* faulty variant: the query's value wins over the fragment's
extractUtmParameters_QueryWins(url) ==
    IF ~Parseable(url) THEN <<>>
    ELSE LET urlObj == NewURL(url)
             fromFragment == IF urlObj.hash # <<>> /\ IncludesEq(urlObj.hash)
                             THEN CollectSnake(<<>>, URLSearchParams(urlObj.hash))
                             ELSE <<>>
         IN  CollectSnake(fromFragment, urlObj.searchParams)

extractUtmParameters(url) ==
    IF ~Parseable(url) THEN <<>>
    ELSE LET urlObj == NewURL(url)
             fromQuery == CollectSnake(<<>>, urlObj.searchParams)
         IN  IF urlObj.hash # <<>> /\ IncludesEq(urlObj.hash)
             THEN CollectSnake(fromQuery, URLSearchParams(urlObj.hash))
             ELSE fromQuery

-----------------------------------------------------------------------------
(* Extractor *)

Elements(list) == {list[i] : i \in DOMAIN list}

\* optional arguments: an absent allowlist and an absent URL, and null for a Set
NoList == [given |-> FALSE]
List(l) == [given |-> TRUE, items |-> l]
NoUrl  == [given |-> FALSE]
NoSet  == [null |-> TRUE]

\* faulty variant: an empty allowlist is a filter that lets nothing through
allowedSet_EmptyIsFilter(allowedParameters) ==
    IF allowedParameters.given THEN [has |-> Elements(allowedParameters.items)] ELSE NoSet

\* the set built from the allowlist, or null when none is given or it is empty
allowedSet(allowedParameters) ==
    IF allowedParameters.given /\ Len(allowedParameters.items) > 0
    THEN [has |-> Elements(allowedParameters.items)]
    ELSE NoSet

\* faulty variant: keys of either convention are selected
RECURSIVE CaptureFrom_AnyConvention(_, _, _)
CaptureFrom_AnyConvention(params, entries, allowed) ==
    IF entries = <<>> THEN params
    ELSE LET e == Head(entries)
         IN  IF isUtmKey(e.k) /\ (allowed = NoSet \/ e.k \in allowed.has)
             THEN CaptureFrom_AnyConvention(ObjSet(params, e.k, e.v), Tail(entries), allowed)
             ELSE CaptureFrom_AnyConvention(params, Tail(entries), allowed)

\* the loop over urlObj.searchParams.entries()
RECURSIVE CaptureFrom(_, _, _)
CaptureFrom(params, entries, allowed) ==
    IF entries = <<>> THEN params
    ELSE LET e == Head(entries)
         IN  IF isSnakeCaseUtmKey(e.k) /\ (allowed = NoSet \/ e.k \in allowed.has)
             THEN CaptureFrom(ObjSet(params, e.k, e.v), Tail(entries), allowed)
             ELSE CaptureFrom(params, Tail(entries), allowed)

\* url = NoUrl: no URL given and no page URL to fall back on
captureUtmParameters(url, keyFormat, allowedParameters) ==
    IF url = NoUrl THEN <<>>
    ELSE IF ~Parseable(url) THEN <<>>
    ELSE LET urlObj == NewURL(url)
             params == CaptureFrom(<<>>, urlObj.searchParams, allowedSet(allowedParameters))
         IN  IF keyFormat = "camelCase" THEN convertParams(params, "camelCase") ELSE params

-----------------------------------------------------------------------------
(* Removal of UTM parameters *)

Thrown == [kind |-> "thrown"]      \* an exception that reaches the caller

\* whether removeUtmParameters is to delete the key
ToRemove(key, keysToRemove) ==
    IF keysToRemove.given THEN key \in Elements(keysToRemove.items)
    ELSE isSnakeCaseUtmKey(key)

\* faulty variant: the fragment is not cleaned
RemoveFrom_QueryOnly(urlObj, keysToRemove) ==
    LET queryKeysToDelete == SelectSeq(urlObj.searchParams,
                                       LAMBDA e : ToRemove(e.k, keysToRemove))
        searchParams == DeleteKeys(urlObj.searchParams, queryKeysToDelete)
        query == IF queryKeysToDelete = <<>> THEN urlObj.query
                 ELSE SearchParamsToString(searchParams)
    IN  Href([urlObj EXCEPT !.searchParams = searchParams, !.query = query])

\* the body of the try block
RemoveFrom(urlObj, keysToRemove) ==
    LET queryKeysToDelete == SelectSeq(urlObj.searchParams,
                                       LAMBDA e : ToRemove(e.k, keysToRemove))
        searchParams == DeleteKeys(urlObj.searchParams, queryKeysToDelete)
        \* the query text is written anew only when a key was deleted
        query == IF queryKeysToDelete = <<>> THEN urlObj.query
                 ELSE SearchParamsToString(searchParams)
        hash == IF urlObj.hash # <<>> /\ IncludesEq(urlObj.hash)
                THEN LET fragmentParams == URLSearchParams(urlObj.hash)
                         fragmentKeysToDelete ==
                             SelectSeq(fragmentParams, LAMBDA e : ToRemove(e.k, keysToRemove))
                     IN  SearchParamsToString(DeleteKeys(fragmentParams, fragmentKeysToDelete))
                ELSE urlObj.hash
    IN  Href([urlObj EXCEPT !.searchParams = searchParams, !.query = query, !.hash = hash])

\* faulty variant: the exception of new URL(url) is not caught
removeUtmParameters_NoCatch(url, keysToRemove) ==
    IF ~Parseable(url) THEN Thrown
    ELSE RemoveFrom(NewURL(url), keysToRemove)

removeUtmParameters(url, keysToRemove) ==
    IF ~Parseable(url) THEN url                 \* the catch branch
    ELSE RemoveFrom(NewURL(url), keysToRemove)

-----------------------------------------------------------------------------
(* Calls and the environment *)

NoRet  == [op |-> "none"]

\* sessionStorage works; or it is missing or refuses the probe write; or it
\* takes the probe write and raises on the calls that follow
Available   == "available"
Unavailable == "unavailable"
Raising     == "raising"

Absent == [kind |-> "absent"]   \* getItem answers null: nothing is stored in the slot
Slots  == {"utm_parameters", "custom_key"}

-----------------------------------------------------------------------------
(* Key normalizer specification: one key is drawn, the converters are applied *)

InitKeys ==
    /\ args \in [fn : {"keys"}, key : KeyUniverse]
    /\ ret = NoRet
    /\ storage = [s \in Slots |-> Absent]
    /\ avail = Available

CallToSnakeCase ==
    /\ args.fn = "keys" /\ ret = NoRet
    /\ ret' = [op |-> "toSnakeCase", value |-> toSnakeCase(args.key)]
    /\ UNCHANGED <<args, storage, avail>>

CallToCamelCase ==
    /\ args.fn = "keys" /\ ret = NoRet
    /\ ret' = [op |-> "toCamelCase", value |-> toCamelCase(args.key)]
    /\ UNCHANGED <<args, storage, avail>>

NextKeys == CallToSnakeCase \/ CallToCamelCase

SpecKeys == InitKeys /\ [][NextKeys]_vars

-----------------------------------------------------------------------------
(* URL injector specification: a URL and a parameter set are drawn, then   *)
(* appendUtmParameters (with either placement and either conflict policy)  *)
(* or extractUtmParameters is applied                                      *)

InjectUrlPieces ==
    {Piece(k_utm_a, "", FALSE), Piece(k_utm_a, "", TRUE), Piece(k_utm_a, "x", TRUE),
     Piece(k_ref, "", FALSE), Piece(k_ref, "x", TRUE)}

NotAUrl == [base |-> "not a valid url", query |-> <<>>, frag |-> <<>>]

\* "/page?utm_a=x": a relative reference, which new URL() refuses as well
RelativeUrl == [base |-> "/page", query |-> <<Piece(k_utm_a, "x", TRUE)>>, frag |-> <<>>]

UrlsOver(base, pieces, n) ==
    {[base |-> base, query |-> q, frag |-> f] :
        q \in SeqsUpTo(pieces, n), f \in SeqsUpTo(pieces, n)}

InjectUrls ==
    {u \in UrlsOver("https://example.com", InjectUrlPieces, MaxPieces) :
        Len(u.query) + Len(u.frag) <= MaxPieces}
        \cup {u \in UrlsOver("https://u:p@example.com/p", InjectUrlPieces, MaxPieces - 1) :
                Len(u.query) + Len(u.frag) <= MaxPieces - 1}
        \cup {NotAUrl, RelativeUrl}

\* URLs read by extractUtmParameters: keys of both conventions, two values for one key
ExtractUrlPieces ==
    {Piece(k_utm_a, "x", TRUE), Piece(k_utm_a, "z", TRUE), Piece(k_utm_a, "", FALSE),
     Piece(k_utm_b, "w", TRUE), Piece(k_utmA, "x", TRUE), Piece(k_ref, "x", TRUE)}

ExtractUrls ==
    InjectUrls \cup {u \in UrlsOver("https://example.com", ExtractUrlPieces, MaxPieces) :
                        Len(u.query) + Len(u.frag) <= MaxPieces}

DistinctKeys(p) == \A i, j \in DOMAIN p : i # j => p[i].k # p[j].k

InjectParamEntries ==
    [k : {k_utm_a, k_utmA}, v : {Undefined, "", "y"}] \cup {[k |-> k_utm_b, v |-> "y"]}

UtmParamSets(n) == {p \in SeqsUpTo(InjectParamEntries, n) : DistinctKeys(p)}

\* parameter sets of UTM keys, and a few that also carry a key outside the namespace
InjectParamSets ==
    UtmParamSets(MaxParams)
        \cup {<<[k |-> k_ref, v |-> "y"]>> \o p : p \in UtmParamSets(MaxParams - 1)}

KeyFormats == {"snake_case", "camelCase"}

AllowLists ==
    {NoList} \cup {List(l) : l \in {<<>>, <<k_utm_a>>, <<k_utm_b>>, <<k_utm_a, k_utm_b>>,
                                     <<k_utm_1, k_utmA>>}}

\* the keysToRemove argument
RemoveKeyLists ==
    {NoList} \cup {List(l) : l \in {<<>>, <<k_utm_a>>, <<k_ref>>, <<k_utm_a, k_ref>>}}

InitInject ==
    /\ args \in [fn : {"inject"}, url : InjectUrls, utmParams : InjectParamSets]
                    \cup [fn : {"extract"}, url : ExtractUrls]
                    \cup [fn : {"remove"}, url : InjectUrls]
                    \cup [fn : {"capture"}, url : InjectUrls \cup {NoUrl}]
    /\ ret = NoRet
    /\ storage = [s \in Slots |-> Absent]
    /\ avail = Available

CallAppendUtmParameters ==
    /\ args.fn = "inject" /\ ret = NoRet
    /\ \E toFragment \in BOOLEAN, preserveExisting \in BOOLEAN :
          ret' = [op |-> "appendUtmParameters",
                  toFragment |-> toFragment, preserveExisting |-> preserveExisting,
                  value |-> appendUtmParameters(args.url, args.utmParams,
                                                toFragment, preserveExisting)]
    /\ UNCHANGED <<args, storage, avail>>

CallExtractUtmParameters ==
    /\ args.fn = "extract" /\ ret = NoRet
    /\ ret' = [op |-> "extractUtmParameters", value |-> extractUtmParameters(args.url)]
    /\ UNCHANGED <<args, storage, avail>>

CallRemoveUtmParameters ==
    /\ args.fn = "remove" /\ ret = NoRet
    /\ \E keysToRemove \in RemoveKeyLists :
          ret' = [op |-> "removeUtmParameters", keysToRemove |-> keysToRemove,
                  value |-> removeUtmParameters(args.url, keysToRemove)]
    /\ UNCHANGED <<args, storage, avail>>

CallCaptureUtmParameters ==
    /\ args.fn = "capture" /\ ret = NoRet
    /\ \E keyFormat \in KeyFormats \cup {Undefined}, allowedParameters \in AllowLists :
          ret' = [op |-> "captureUtmParameters",
                  keyFormat |-> keyFormat, allowedParameters |-> allowedParameters,
                  value |-> captureUtmParameters(args.url, keyFormat, allowedParameters)]
    /\ UNCHANGED <<args, storage, avail>>

NextInject ==
    \/ CallAppendUtmParameters
    \/ CallExtractUtmParameters
    \/ CallRemoveUtmParameters
    \/ CallCaptureUtmParameters

SpecInject == InitInject /\ [][NextInject]_vars

-----------------------------------------------------------------------------
(* Reading a returned URL back *)

PieceKeys(text) == {text[i].k : i \in DOMAIN text}

\* the keys a location holds: the query always, the fragment when it is key=value text
QueryHolds(url, k) == k \in PieceKeys(url.query)
FragHolds(url, k)  == IncludesEq(url.frag) /\ k \in PieceKeys(url.frag)

\* the decoded values a location's text holds for key k, in order
ValuesOf(text, k) ==
    LET l == SelectSeq(URLSearchParams(text), LAMBDA e : e.k = k)
    IN  [i \in DOMAIN l |-> l[i].v]

SameParams(o1, o2) == Keys(o1) = Keys(o2) /\ \A k \in Keys(o1) : Get(o1, k) = Get(o2, k)

Appended == ret.op = "appendUtmParameters"

\* the call went past the fast path and the URL parsed: parameters were written
Injected == Appended /\ hasValidUtmEntries(args.utmParams) /\ Parseable(args.url)

-----------------------------------------------------------------------------
(* C1: cross-location conflict rule.  After an injection into the query no *)
(* injected key remains in a fragment that contained "=", and a fragment   *)
(* without "=" is left as it was; after an injection into the fragment no  *)
(* injected key remains in the query.  So no injected key is held by both  *)
(* locations of the result.                                                *)
C1_CrossLocation ==
    Injected =>
        LET injectedKeys == Keys(toSnakeCaseParams(args.utmParams))
        IN  /\ (~ret.toFragment /\ IncludesEq(args.url.frag)) =>
                   \A k \in injectedKeys : k \notin PieceKeys(ret.value.frag)
            /\ (~ret.toFragment /\ ~IncludesEq(args.url.frag)) =>
                   ret.value.frag = args.url.frag
            /\ ret.toFragment =>
                   \A k \in injectedKeys : k \notin PieceKeys(ret.value.query)
            /\ \A k \in injectedKeys :
                   ~(QueryHolds(ret.value, k) /\ FragHolds(ret.value, k))

\* an injected key was held by the other location and is gone from it
C1_Witness ==
    /\ Injected
    /\ \E k \in Keys(toSnakeCaseParams(args.utmParams)) :
          \/ ~ret.toFragment /\ FragHolds(args.url, k) /\ QueryHolds(args.url, k)
                /\ ~FragHolds(ret.value, k) /\ ret.value.frag # <<>>
          \/ ret.toFragment /\ QueryHolds(args.url, k) /\ FragHolds(ret.value, k)

\* the text of the location the call wrote to
TargetText(url) == IF ret.toFragment THEN url.frag ELSE url.query

(* C2: in the target location, a key of the converted set that the target  *)
(* already held is kept exactly as it was under preserveExisting;          *)
(* otherwise the target holds exactly one entry for it, with the injected  *)
(* value.                                                                  *)
C2_TargetEntries ==
    Injected =>
        LET injected == toSnakeCaseParams(args.utmParams)
            before == TargetText(args.url)
            after == TargetText(ret.value)
        IN  \A k \in Keys(injected) :
                IF ret.preserveExisting /\ k \in PieceKeys(before)
                THEN ValuesOf(after, k) = ValuesOf(before, k)
                ELSE ValuesOf(after, k) = <<Get(injected, k)>>

\* the input carried the key twice in the target and the result carries it once
C2_Witness ==
    /\ Injected /\ ~ret.preserveExisting
    /\ \E k \in Keys(toSnakeCaseParams(args.utmParams)) :
          /\ Len(ValuesOf(TargetText(args.url), k)) = 2
          /\ ValuesOf(TargetText(ret.value), k) = <<"y">>

(* C3: with preserveExisting = false, injecting the same set again with    *)
(* the same placement returns the URL of the first injection.              *)
C3_Idempotent ==
    (Appended /\ ~ret.preserveExisting) =>
        appendUtmParameters(ret.value, args.utmParams, ret.toFragment, FALSE) = ret.value

\* the first injection changed the URL, replacing an existing value
C3_Witness ==
    /\ Injected /\ ~ret.preserveExisting /\ ret.value # args.url
    /\ \E k \in Keys(toSnakeCaseParams(args.utmParams)) :
          ValuesOf(TargetText(args.url), k) = <<"x">>

NoUtmKeyIn(url) == \A k \in PieceKeys(url.query) \cup PieceKeys(url.frag) : ~isUtmKey(k)

IsParameterSet(p) == \A k \in Keys(p) : isUtmKey(k)

(* C4 as claimed: on every URL that carries no UTM key and for every       *)
(* parameter set, extracting after injecting returns the set in underscore *)
(* form, for both placements.                                              *)
C4_RoundTrip_AsClaimed ==
    (Appended /\ ~ret.preserveExisting /\ IsParameterSet(args.utmParams)
        /\ NoUtmKeyIn(args.url)) =>
        SameParams(extractUtmParameters(ret.value), toSnakeCaseParams(args.utmParams))

(* C4 amended: on every parseable URL that carries no UTM key and for     *)
(* every parameter set whose underscore form has an entry with a non-empty *)
(* value, extracting after injecting returns the set in underscore form,   *)
(* for both placements.                                                    *)
C4_RoundTrip ==
    (Injected /\ ~ret.preserveExisting /\ IsParameterSet(args.utmParams)
        /\ NoUtmKeyIn(args.url)) =>
        LET injected == toSnakeCaseParams(args.utmParams)
        IN  hasValidUtmEntries(injected) =>
                SameParams(extractUtmParameters(ret.value), injected)

\* a set with an empty and a non-empty value went into a fragment and came back
C4_Witness ==
    /\ Injected /\ ~ret.preserveExisting /\ IsParameterSet(args.utmParams)
    /\ NoUtmKeyIn(args.url) /\ ret.toFragment /\ args.url.frag # <<>>
    /\ LET injected == toSnakeCaseParams(args.utmParams)
       IN  /\ \E k1, k2 \in Keys(injected) : Get(injected, k1) = "" /\ Get(injected, k2) = "y"
           /\ SameParams(extractUtmParameters(ret.value), injected)

-----------------------------------------------------------------------------
(* Key shapes on which the two converters are inverse to each other *)

Suffix(key, n) == SubSeq(key, n + 1, Len(key))

\* utm_<suffix>: the suffix is empty, or starts with a lowercase letter and
\* holds no uppercase letter
RoundTripSnakeKey(key) ==
    /\ isSnakeCaseUtmKey(key)
    /\ LET rest == Suffix(key, 4)
       IN  rest = <<>> \/ (IsLower(rest[1]) /\ \A i \in DOMAIN rest : ~IsUpper(rest[i]))

\* utm<Suffix>: no underscore of the suffix is directly followed by a lowercase letter
RoundTripCamelKey(key) ==
    /\ isCamelCaseUtmKey(key)
    /\ \A i \in 4..(Len(key) - 1) : ~(key[i] = "_" /\ IsLower(key[i + 1]))

(* C6 as claimed: toSnakeCase(toCamelCase(k)) = k for every key k that     *)
(* starts with utm_, and toCamelCase(toSnakeCase(c)) = c for every key c   *)
(* made of utm and an uppercase letter, whatever follows.                  *)
C6_KeyRoundTrip_AsClaimed ==
    /\ (ret.op = "toCamelCase" /\ isSnakeCaseUtmKey(args.key)) =>
           toSnakeCase(ret.value) = args.key
    /\ (ret.op = "toSnakeCase" /\ isCamelCaseUtmKey(args.key)) =>
           toCamelCase(ret.value) = args.key

(* C6 amended: the round trip holds exactly for the underscore keys whose  *)
(* suffix is empty or starts with a lowercase letter and holds no          *)
(* uppercase letter, and for the compact keys in which no underscore is    *)
(* directly followed by a lowercase letter; custom keys of letter-only     *)
(* words and the six standard keys are among them.                         *)
C6_KeyRoundTrip ==
    /\ (ret.op = "toCamelCase" /\ isSnakeCaseUtmKey(args.key)) =>
           (toSnakeCase(ret.value) = args.key <=> RoundTripSnakeKey(args.key))
    /\ (ret.op = "toSnakeCase" /\ isCamelCaseUtmKey(args.key)) =>
           (toCamelCase(ret.value) = args.key <=> RoundTripCamelKey(args.key))
    /\ (ret.op = "toCamelCase" /\ args.key \in STANDARD_SNAKE_KEYS) =>
           RoundTripSnakeKey(args.key)
    /\ (ret.op = "toSnakeCase" /\ args.key \in STANDARD_CAMEL_KEYS) =>
           RoundTripCamelKey(args.key)

\* the custom key utm_team_id went to utmTeamId, which converts back
C6_Witness ==
    /\ ret.op = "toCamelCase" /\ args.key = k_utm_team_id
    /\ ret.value = k_utmTeamId /\ toSnakeCase(ret.value) = args.key

-----------------------------------------------------------------------------
(* Extractor specification: a URL is drawn, the extractor is applied with   *)
(* some key format and some allowlist                                       *)

CaptureQueryPieces ==
    {Piece(k_utm_a, "x", TRUE), Piece(k_utm_a, "z", TRUE), Piece(k_utm_a, "", FALSE),
     Piece(k_utm_b, "x", TRUE), Piece(k_utm_1, "x", TRUE), Piece(k_utm_A, "z", TRUE),
     Piece(k_utmA, "x", TRUE), Piece(k_UTM_a, "x", TRUE), Piece(k_ref, "x", TRUE)}

CaptureFragments == {<<>>, <<Piece(k_utm_b, "w", TRUE)>>, <<Piece(k_utm_b, "", FALSE)>>}

CaptureUrls ==
    {[base |-> "https://example.com", query |-> q, frag |-> f] :
        q \in SeqsUpTo(CaptureQueryPieces, MaxPieces), f \in CaptureFragments}
        \cup {NotAUrl, NoUrl}

InitCapture ==
    /\ args \in [fn : {"capture"}, url : CaptureUrls]
    /\ ret = NoRet
    /\ storage = [s \in Slots |-> Absent]
    /\ avail = Available

NextCapture == CallCaptureUtmParameters

SpecCapture == InitCapture /\ [][NextCapture]_vars

-----------------------------------------------------------------------------
(* Claims about the extractor *)

Captured == ret.op = "captureUtmParameters" /\ args.url # NoUrl /\ Parseable(args.url)

\* the key under which the requested format returns the query key k
ReturnedKey(k) == IF ret.keyFormat = "camelCase" THEN toCamelCase(k) ELSE k

\* a parameter set as the components promise it
ConformingSet(p) ==
    \A i \in DOMAIN p : isUtmKey(p[i].k) /\ p[i].v \notin {Undefined, NonString}

(* C7: every parameter set that captureUtmParameters returns, and every    *)
(* conversion of it, holds only keys that satisfy isUtmKey and only string *)
(* values.                                                                 *)
C7_ParameterSetInvariant ==
    ret.op = "captureUtmParameters" =>
        /\ ConformingSet(ret.value)
        /\ \A f \in KeyFormats : ConformingSet(convertParams(ret.value, f))

(* C8: with no allowlist the result holds exactly the query entries whose  *)
(* key starts with utm_, each with a value the query gives that key, under *)
(* either key format; other query keys and the fragment add nothing.       *)
C8_CaptureSelection ==
    (Captured /\ ret.allowedParameters = NoList) =>
        LET q == args.url.query
            selected == SelectSeq(q, LAMBDA e : StartsWith(e.k, utm_))
        IN  /\ \A i \in DOMAIN ret.value :
                  \E j \in DOMAIN q :
                      /\ StartsWith(q[j].k, utm_)
                      /\ ReturnedKey(q[j].k) = ret.value[i].k
                      /\ q[j].v = ret.value[i].v
            /\ \A j \in DOMAIN q :
                  StartsWith(q[j].k, utm_) => HasKey(ret.value, ReturnedKey(q[j].k))
            /\ ret.value = captureUtmParameters(
                               [args.url EXCEPT !.query = selected, !.frag = <<>>],
                               ret.keyFormat, NoList)

\* utm_a was taken in compact form; UTM_a or utmA in the query and utm_b in
\* the fragment were left out
C8_Witness ==
    /\ Captured /\ ret.allowedParameters = NoList /\ ret.keyFormat = "camelCase"
    /\ Len(args.url.query) = 2 /\ args.url.query[1] = Piece(k_utm_a, "x", TRUE)
    /\ args.url.query[2].k \in {k_UTM_a, k_utmA}
    /\ args.url.frag = <<Piece(k_utm_b, "w", TRUE)>>
    /\ ret.value = <<[k |-> k_utmA, v |-> "x"]>>

\* every returned key is the returned form of a key of the allowlist
OnlyAllowedKeys ==
    \A i \in DOMAIN ret.value :
        \E a \in Elements(ret.allowedParameters.items) : ReturnedKey(a) = ret.value[i].k

\* every utm_ query key that the filter lets through is returned
AllowedKeysIncluded(filtering) ==
    \A j \in DOMAIN args.url.query :
        LET k == args.url.query[j].k
        IN  (StartsWith(k, utm_) /\ (~filtering \/ k \in Elements(ret.allowedParameters.items)))
                => HasKey(ret.value, ReturnedKey(k))

(* C9 as claimed: whenever an allowlist is given, the empty list included, *)
(* the result holds no key that is absent from the allowlist.              *)
C9_Allowlist_AsClaimed ==
    (Captured /\ ret.allowedParameters.given) => OnlyAllowedKeys

(* C9 amended: a utm_ query key is returned unless a non-empty allowlist   *)
(* is given and the key is absent from it; for every non-empty allowlist   *)
(* the result holds no key absent from it, and an empty allowlist filters  *)
(* nothing: the result is the one obtained with no allowlist.              *)
C9_Allowlist ==
    Captured =>
        /\ (ret.allowedParameters.given /\ ret.allowedParameters # List(<<>>))
               => (OnlyAllowedKeys /\ AllowedKeysIncluded(TRUE))
        /\ (ret.allowedParameters = NoList \/ ret.allowedParameters = List(<<>>))
               => AllowedKeysIncluded(FALSE)
        /\ ret.allowedParameters = List(<<>>)
               => ret.value = captureUtmParameters(args.url, ret.keyFormat, NoList)

\* utm_a and utm_b were in the query, the allowlist named utm_a only
C9_Witness ==
    /\ Captured /\ ret.allowedParameters = List(<<k_utm_a>>)
    /\ args.url.query = <<Piece(k_utm_a, "x", TRUE), Piece(k_utm_b, "x", TRUE)>>
    /\ ret.value = <<[k |-> k_utm_a, v |-> "x"]>>

-----------------------------------------------------------------------------
(* Session store.                                                          *)
(* The text in a slot is described by the JSON value it denotes: kind is   *)
(* "object" with its entries, "string", "number", "array" or "null", or    *)
(* "invalid" for a text that is not JSON.                                  *)

DEFAULT_STORAGE_KEY == "utm_parameters"

JsonObject(entries) == [kind |-> "object", entries |-> entries]
JsonOther(kind) == [kind |-> kind]

\* JSON.stringify(obj): the properties whose value is undefined are left out
JSONStringify(obj) == JsonObject(SelectSeq(obj, LAMBDA e : e.v # Undefined))

\* JSON.parse(text): the value, or a SyntaxError
SyntaxError == [kind |-> "SyntaxError"]
JSONParse(text) == IF text.kind = "invalid" THEN SyntaxError ELSE text

\* the probe: setItem and removeItem of a test key inside try / catch
isStorageAvailable == avail # Unavailable

testKey == "__utm_test__"

\* sessionStorage after the probe: where it goes through, the slot of the
\* test key was written and removed.  A store that is modelled without that
\* slot is left as it is.
Probed ==
    IF avail = Available
    THEN [s \in DOMAIN storage |-> IF s = testKey THEN Absent ELSE storage[s]]
    ELSE storage

\* sessionStorage.setItem / getItem / removeItem: the effect, or an exception
setItem(key, text) ==
    IF avail = Raising THEN [raised |-> TRUE]
    ELSE [raised |-> FALSE, storage |-> [Probed EXCEPT ![key] = text]]

getItem(key) ==
    IF avail = Raising THEN [raised |-> TRUE]
    ELSE [raised |-> FALSE, value |-> Probed[key]]

removeItem(key) ==
    IF avail = Raising THEN [raised |-> TRUE]
    ELSE [raised |-> FALSE, storage |-> [Probed EXCEPT ![key] = Absent]]

\* faulty variant: the values of the record are not looked at
isValidStoredData_AnyValue(data, keyFormat) ==
    IF data.kind # "object" THEN FALSE
    ELSE \A i \in DOMAIN data.entries : isUtmKey(data.entries[i].k)

isValidStoredData(data, keyFormat) ==
    IF data.kind # "object" THEN FALSE
    ELSE IF Len(data.entries) = 0 THEN TRUE
    ELSE \A i \in DOMAIN data.entries :
            LET key == data.entries[i].k
                value == data.entries[i].v
            IN  IF value # Undefined /\ value = NonString THEN FALSE
                ELSE IF keyFormat = "snake_case" THEN isSnakeCaseUtmKey(key)
                ELSE IF keyFormat = "camelCase" THEN isCamelCaseUtmKey(key)
                ELSE isUtmKey(key)

StorageKeyOf(options) ==
    IF options.storageKey = Undefined THEN DEFAULT_STORAGE_KEY ELSE options.storageKey

\* how a call ends, and the sessionStorage it leaves behind
Returned(store) == [outcome |-> "returned", storage |-> store]
Raised(store)   == [outcome |-> "raised", storage |-> store]

\* faulty variant: an empty set is written like any other
storeUtmParameters_WritesEmpty(params, options) ==
    LET storageKey == StorageKeyOf(options)
        keyFormat == IF options.keyFormat = Undefined THEN "snake_case" ELSE options.keyFormat
    IN  IF ~isStorageAvailable THEN Returned(storage)
        ELSE LET written == setItem(storageKey, JSONStringify(convertParams(params, keyFormat)))
             IN  IF written.raised THEN Returned(storage) ELSE Returned(written.storage)

\* faulty variant: the exception of setItem is not caught
storeUtmParameters_NoCatch(params, options) ==
    LET storageKey == StorageKeyOf(options)
        keyFormat == IF options.keyFormat = Undefined THEN "snake_case" ELSE options.keyFormat
    IN  IF ~isStorageAvailable THEN Returned(storage)
        ELSE IF Len(params) = 0 THEN Returned(Probed)
        ELSE LET written == setItem(storageKey, JSONStringify(convertParams(params, keyFormat)))
             IN  IF written.raised THEN Raised(storage) ELSE Returned(written.storage)

storeUtmParameters(params, options) ==
    LET storageKey == StorageKeyOf(options)
        keyFormat == IF options.keyFormat = Undefined THEN "snake_case" ELSE options.keyFormat
    IN  IF ~isStorageAvailable THEN Returned(storage)
        ELSE IF Len(params) = 0 THEN Returned(Probed)
        ELSE LET paramsToStore == convertParams(params, keyFormat)
                 serialized == JSONStringify(paramsToStore)
                 written == setItem(storageKey, serialized)
             IN  IF written.raised THEN Returned(storage)      \* the catch branch
                 ELSE Returned(written.storage)

NullResult == [kind |-> "null"]
getStoredUtmParameters(options) ==
    LET storageKey == StorageKeyOf(options)
        keyFormat == options.keyFormat
    IN  IF ~isStorageAvailable THEN NullResult
        ELSE LET stored == getItem(storageKey)
             IN  IF stored.raised THEN NullResult                  \* the catch branch
                 ELSE IF stored.value = Absent THEN NullResult
                 ELSE LET parsed == JSONParse(stored.value)
                      IN  IF parsed = SyntaxError THEN NullResult      \* the catch branch
                          ELSE IF ~isValidStoredData(parsed, Undefined) THEN NullResult
                          ELSE IF keyFormat # Undefined
                               THEN JsonObject(convertParams(parsed.entries, keyFormat))
                          ELSE parsed

clearStoredUtmParameters(storageKey) ==
    IF ~isStorageAvailable THEN Returned(storage)
    ELSE LET removed == removeItem(storageKey)
         IN  IF removed.raised THEN Returned(storage)              \* the catch branch
             ELSE Returned(removed.storage)

\* "true", "false", or "thrown" when the exception of the read reaches the caller
hasStoredUtmParameters(storageKey) ==
    LET params == getStoredUtmParameters([storageKey |-> storageKey, keyFormat |-> Undefined])
    IN  IF params = Thrown THEN "thrown"
        ELSE IF params # NullResult /\ Len(params.entries) > 0 THEN "true"
        ELSE "false"

-----------------------------------------------------------------------------
(* Session store specification: a page holds a parameter set; one slot     *)
(* may start with content that other code of the page wrote; the set is    *)
(* then stored, read and cleared in any order                              *)

StoreParamEntries ==
    {[k |-> k_utm_a, v |-> "x"], [k |-> k_utm_a, v |-> Undefined],
     [k |-> k_utmA, v |-> "x"], [k |-> k_utmA, v |-> "y"], [k |-> k_utm_1, v |-> "x"]}

StoreParamSets == {p \in SeqsUpTo(StoreParamEntries, MaxParams) : DistinctKeys(p)}

\* the storageKey option: left out, or the name of another slot
StorageKeyOptions == {Undefined, "custom_key"}

ForeignContents ==
    {Absent, JsonOther("invalid"), JsonOther("string"), JsonOther("number"),
     JsonOther("array"), JsonOther("null"),
     JsonObject(<<>>),
     JsonObject(<<[k |-> k_utm_a, v |-> "x"]>>),
     JsonObject(<<[k |-> k_ref, v |-> "x"]>>),
     JsonObject(<<[k |-> k_utm_a, v |-> NonString]>>),
     JsonObject(<<[k |-> k_utm_a, v |-> "x"], [k |-> k_ref, v |-> "y"]>>),
     JsonObject(<<[k |-> k_utm_a, v |-> "x"], [k |-> k_utmA, v |-> NonString]>>)}

\* a second set, which the page stores over the first
OtherParams == <<[k |-> k_utm_b, v |-> "o"]>>

\* nothing was stored into or cleared from the slot yet
NoCall == [call |-> "none"]

\* the set of a page that meets foreign content or a faulty sessionStorage
TypicalParams == <<[k |-> k_utm_a, v |-> "x"]>>

\* a session starts fresh with any parameter set, or finds content in one
\* slot, or runs where sessionStorage is missing or raises
InitStore ==
    /\ \E slot \in Slots, content \in ForeignContents :
          storage = [s \in Slots |-> IF s = slot THEN content ELSE Absent]
    /\ avail \in {Available, Unavailable, Raising}
    /\ args \in [fn : {"session"}, params : StoreParamSets,
                 found : {storage}, last : {[s \in Slots |-> NoCall]}]
    /\ \/ avail = Available /\ \A s \in Slots : storage[s] = Absent
       \/ avail = Available /\ args.params = TypicalParams
       \/ /\ avail # Available /\ args.params = TypicalParams
          /\ \A s \in Slots : storage[s] \in {Absent, JsonObject(TypicalParams)}
    /\ ret = NoRet

\* args.last: per slot, the last clear or store of a set that is not empty
CallStoreUtmParameters ==
    \E params \in {args.params, OtherParams, <<>>},
       storageKey \in StorageKeyOptions, keyFormat \in KeyFormats \cup {Undefined} :
        LET options == [storageKey |-> storageKey, keyFormat |-> keyFormat]
            result == storeUtmParameters(params, options)
        IN  /\ storage' = result.storage
            /\ ret' = [op |-> "storeUtmParameters", params |-> params, options |-> options,
                       outcome |-> result.outcome]
            /\ args' = IF params = <<>> THEN args
                       ELSE [args EXCEPT !.last[StorageKeyOf(options)] =
                                [call |-> "store", params |-> params, keyFormat |-> keyFormat]]
            /\ UNCHANGED avail

CallGetStoredUtmParameters ==
    \E storageKey \in StorageKeyOptions, keyFormat \in KeyFormats \cup {Undefined} :
        LET options == [storageKey |-> storageKey, keyFormat |-> keyFormat]
        IN  /\ ret' = [op |-> "getStoredUtmParameters", options |-> options,
                       value |-> getStoredUtmParameters(options)]
            /\ storage' = Probed
            /\ UNCHANGED <<args, avail>>

CallClearStoredUtmParameters ==
    \E storageKey \in Slots :
        LET result == clearStoredUtmParameters(storageKey)
        IN  /\ storage' = result.storage
            /\ ret' = [op |-> "clearStoredUtmParameters", storageKey |-> storageKey,
                       outcome |-> result.outcome]
            /\ args' = [args EXCEPT !.last[storageKey] = [call |-> "clear"]]
            /\ UNCHANGED avail

CallHasStoredUtmParameters ==
    \E storageKey \in Slots :
        /\ ret' = [op |-> "hasStoredUtmParameters", storageKey |-> storageKey,
                   value |-> hasStoredUtmParameters(storageKey)]
        /\ storage' = Probed
        /\ UNCHANGED <<args, avail>>

NextStore ==
    \/ CallStoreUtmParameters
    \/ CallGetStoredUtmParameters
    \/ CallClearStoredUtmParameters
    \/ CallHasStoredUtmParameters

SpecStore == InitStore /\ [][NextStore]_vars

-----------------------------------------------------------------------------
(* Claims about the session store *)

\* what was last stored into or cleared from the slot that the get read
LastOnSlot == args.last[StorageKeyOf(ret.options)]

\* the last call was a get, and the slot it read was last written by a store
GetRightAfterStore == ret.op = "getStoredUtmParameters" /\ LastOnSlot.call = "store"

(* C5: for any non-empty parameter set p of UTM keys with string values,   *)
(* any slot and any formats f and g, a get with format g right after a     *)
(* store of p with format f returns p converted to g.                      *)
C5_StoreGetRoundTrip ==
    (GetRightAfterStore /\ avail = Available /\ LastOnSlot.params # <<>>
        /\ ConformingSet(LastOnSlot.params) /\ ret.options.keyFormat \in KeyFormats) =>
        /\ ret.value.kind = "object"
        /\ SameParams(ret.value.entries,
                      convertParams(LastOnSlot.params, ret.options.keyFormat))

\* the content is not JSON, or not a plain object, or holds a key that is
\* not a UTM key or a value that is not a string
Corrupt(text) ==
    \/ text.kind \in {"invalid", "string", "number", "array", "null"}
    \/ /\ text.kind = "object"
       /\ \E i \in DOMAIN text.entries :
              ~isUtmKey(text.entries[i].k) \/ text.entries[i].v = NonString

(* C10: whenever the slot read holds corrupt content, getStoredUtmParameters *)
(* returns null: no exception and no part of the record.                     *)
C10_CorruptIsNull ==
    (ret.op = "getStoredUtmParameters" /\ Corrupt(storage[StorageKeyOf(ret.options)]))
        => ret.value = NullResult

\* a record with one good entry and one key outside the namespace was read
C10_Witness ==
    /\ ret.op = "getStoredUtmParameters" /\ avail = Available
    /\ storage[StorageKeyOf(ret.options)] =
           JsonObject(<<[k |-> k_utm_a, v |-> "x"], [k |-> k_ref, v |-> "y"]>>)
    /\ ret.value = NullResult

-----------------------------------------------------------------------------
(* Lifecycle of the stored record *)

\* the record a store call is to leave: the set in the call's format
RecordOf(call) ==
    JsonObject(convertParams(call.params,
                   IF call.keyFormat = Undefined THEN "snake_case" ELSE call.keyFormat))

(* C11: with storage available, a get returns the set of the most recent   *)
(* store of a non-empty set made into the slot since the last clear, in    *)
(* that call's format; it returns null after a clear, and null when        *)
(* nothing was stored into a slot that started unset.                      *)
C11_Lifecycle ==
    (ret.op = "getStoredUtmParameters" /\ avail = Available) =>
        /\ (LastOnSlot.call = "store" /\ ret.options.keyFormat = Undefined)
               => ret.value = RecordOf(LastOnSlot)
        /\ LastOnSlot.call = "clear" => ret.value = NullResult
        /\ (LastOnSlot.call = "none" /\ args.found[StorageKeyOf(ret.options)] = Absent)
               => ret.value = NullResult

\* the lifecycle of the records that pass the validation of the read
LifecycleOfValidRecords ==
    (ret.op = "getStoredUtmParameters" /\ avail = Available) =>
        /\ (LastOnSlot.call = "store" /\ ret.options.keyFormat = Undefined
                /\ isValidStoredData(RecordOf(LastOnSlot), Undefined))
               => ret.value = RecordOf(LastOnSlot)
        /\ LastOnSlot.call = "clear" => ret.value = NullResult
        /\ (LastOnSlot.call = "none" /\ args.found[StorageKeyOf(ret.options)] = Absent)
               => ret.value = NullResult

-----------------------------------------------------------------------------
(* Malformed input *)

Unparseable(url) == url # NoUrl /\ ~Parseable(url)

(* C14: on a URL string that cannot be parsed, captureUtmParameters and    *)
(* extractUtmParameters return the empty set, appendUtmParameters and      *)
(* removeUtmParameters return the input string unchanged, and none of them *)
(* raises; captureUtmParameters called without a URL where no page         *)
(* location exists returns the empty set.                                  *)
C14_MalformedUrl ==
    /\ (ret # NoRet /\ Unparseable(args.url)) =>
          /\ ret.value # Thrown
          /\ ret.op \in {"captureUtmParameters", "extractUtmParameters"} => ret.value = <<>>
          /\ ret.op \in {"appendUtmParameters", "removeUtmParameters"} => ret.value = args.url
    /\ (ret # NoRet /\ args.url = NoUrl) => ret.value = <<>>

C14_Witness ==
    /\ ret.op = "removeUtmParameters"
    /\ args.url = RelativeUrl
    /\ ret.keysToRemove = NoList
    /\ ret.value = RelativeUrl

-----------------------------------------------------------------------------
(* Empty values *)

\* the keys the call wrote into the target: those of the converted set with a
\* defined value, except the ones kept under preserveExisting
WrittenKeys ==
    LET injected == toSnakeCaseParams(args.utmParams)
    IN  {k \in Keys(injected) :
            /\ Get(injected, k) # Undefined
            /\ ~(ret.preserveExisting /\ k \in PieceKeys(TargetText(args.url)))}

(* C15: in the URL returned by appendUtmParameters, every injected key     *)
(* whose value is the empty string is written in the target location as    *)
(* the key alone, without "=", for both placements, and parsing the text   *)
(* of that location gives the key once, with the empty value.              *)
C15_BareKey ==
    Injected =>
        LET injected == toSnakeCaseParams(args.utmParams)
            after == TargetText(ret.value)
        IN  \A k \in WrittenKeys :
                Get(injected, k) = "" =>
                    /\ \E i \in DOMAIN after : after[i].k = k
                    /\ \A i \in DOMAIN after : after[i].k = k => ~after[i].eq
                    /\ ValuesOf(after, k) = <<"">>

\* an empty value replaced "utm_a=x" in the fragment and is written as "utm_a"
C15_Witness ==
    /\ Injected /\ ret.toFragment /\ ~ret.preserveExisting
    /\ Get(toSnakeCaseParams(args.utmParams), k_utm_a) = ""
    /\ \E i \in DOMAIN args.url.frag : args.url.frag[i] = Piece(k_utm_a, "x", TRUE)
    /\ \E i \in DOMAIN ret.value.frag : ret.value.frag[i] = Piece(k_utm_a, "", FALSE)


-----------------------------------------------------------------------------
(* The location the call does not write to *)

OtherText(url) == IF ret.toFragment THEN url.query ELSE url.frag

\* the other location holds no key of the converted set
OtherUntouched == Keys(toSnakeCaseParams(args.utmParams)) \cap PieceKeys(OtherText(args.url)) = {}

(* C16: when appendUtmParameters writes to one location and the other      *)
(* location holds none of the injected keys, the other location of the     *)
(* result is the other location of the input, piece for piece, including   *)
(* whether an empty-valued entry is written with or without "=".           *)
C16_OtherLocationKept ==
    (Injected /\ OtherUntouched) => OtherText(ret.value) = OtherText(args.url)

\* what does hold: the decoded entries of the other location are kept, in order
OtherLocationEntriesKept ==
    (Injected /\ OtherUntouched) =>
        URLSearchParams(OtherText(ret.value)) = URLSearchParams(OtherText(args.url))


-----------------------------------------------------------------------------
(* Entries outside the UTM namespace *)

NonUtmKeys(text) == {k \in PieceKeys(text) : ~isUtmKey(k)}

(* C17: for every parseable URL, every parameter set (a mapping whose keys *)
(* are all UTM keys) and both placements, each non-UTM entry of the query  *)
(* and of the fragment is in the same location of the result with the same *)
(* values, and the result holds no non-UTM key that the input URL did not  *)
(* hold in that location.                                                  *)
C17_NonUtmKept ==
    (Appended /\ Parseable(args.url) /\ IsParameterSet(args.utmParams)) =>
        /\ NonUtmKeys(ret.value.query) = NonUtmKeys(args.url.query)
        /\ NonUtmKeys(ret.value.frag) = NonUtmKeys(args.url.frag)
        /\ \A k \in NonUtmKeys(args.url.query) :
               ValuesOf(ret.value.query, k) = ValuesOf(args.url.query, k)
        /\ \A k \in NonUtmKeys(args.url.frag) :
               ValuesOf(ret.value.frag, k) = ValuesOf(args.url.frag, k)

\* a fragment holding "ref" and a UTM key was rewritten and still holds "ref"
C17_Witness ==
    /\ Injected /\ IsParameterSet(args.utmParams) /\ ret.toFragment
    /\ ret.value.frag # args.url.frag
    /\ k_ref \in PieceKeys(args.url.frag)
    /\ PieceKeys(args.url.frag) # {k_ref}
    /\ ValuesOf(ret.value.frag, k_ref) = <<"x">>


-----------------------------------------------------------------------------
(* preserveExisting *)

Preserving == Appended /\ ret.preserveExisting

\* what extractUtmParameters gives for the URL before and after the call
CarriedBefore == extractUtmParameters(args.url)
CarriedAfter  == extractUtmParameters(ret.value)

-----------------------------------------------------------------------------
(* Removal *)

Removed == ret.op = "removeUtmParameters" /\ Parseable(args.url)

\* the keys the call names: those of the list, or without a list those starting with utm_
Named(k) ==
    IF ret.keysToRemove.given THEN \E i \in DOMAIN ret.keysToRemove.items :
                                       ret.keysToRemove.items[i] = k
    ELSE StartsWith(k, utm_)

\* the entries of a location's text whose key is not named, in order
OtherEntries(text) == SelectSeq(URLSearchParams(text), LAMBDA e : ~Named(e.k))

(* C19: in the URL returned by removeUtmParameters(url, keys) no key of    *)
(* keys (without keys, no key starting with utm_) occurs in the query or   *)
(* in a fragment that contains "="; every other entry of the query and of  *)
(* such a fragment is kept, in order and with its value; a fragment        *)
(* without "=" is left as it is.                                           *)
C19_Remove ==
    Removed =>
        /\ URLSearchParams(ret.value.query) = OtherEntries(args.url.query)
        /\ IncludesEq(args.url.frag) =>
               URLSearchParams(ret.value.frag) = OtherEntries(args.url.frag)
        /\ IncludesEq(ret.value.frag) => \A k \in PieceKeys(ret.value.frag) : ~Named(k)
        /\ ~IncludesEq(args.url.frag) => ret.value.frag = args.url.frag

\* without a key list, "utm_a=x" left a fragment that also held "ref"
C19_Witness ==
    /\ Removed /\ ret.keysToRemove = NoList
    /\ FragHolds(args.url, k_utm_a) /\ FragHolds(args.url, k_ref)
    /\ PieceKeys(ret.value.frag) = {k_ref}


-----------------------------------------------------------------------------
(* Extraction from a URL *)

Extracted == ret.op = "extractUtmParameters" /\ Parseable(args.url)

\* the underscore-convention keys a location's text holds
UnderscoreKeys(text) == {k \in PieceKeys(text) : StartsWith(k, utm_)}

\* the value of the last entry for key k in a location's text
LastValue(text, k) == LET vs == ValuesOf(text, k) IN vs[Len(vs)]

(* C20: extractUtmParameters returns exactly the underscore-convention     *)
(* keys of the query and of a fragment containing "="; a key that occurs   *)
(* in both has the fragment's value, a key that occurs in one location     *)
(* has that location's value.                                              *)
C20_Extract ==
    Extracted =>
        LET inQuery == UnderscoreKeys(args.url.query)
            inFrag == IF IncludesEq(args.url.frag) THEN UnderscoreKeys(args.url.frag) ELSE {}
        IN  /\ Keys(ret.value) = inQuery \cup inFrag
            /\ \A k \in inFrag : Get(ret.value, k) = LastValue(args.url.frag, k)
            /\ \A k \in inQuery \ inFrag : Get(ret.value, k) = LastValue(args.url.query, k)

\* utm_a=x in the query and utm_a=z in the fragment: z is returned
C20_Witness ==
    /\ Extracted
    /\ ValuesOf(args.url.query, k_utm_a) = <<"x">>
    /\ ValuesOf(args.url.frag, k_utm_a) = <<"z">>
    /\ ret.value = <<[k |-> k_utm_a, v |-> "z"]>>


-----------------------------------------------------------------------------
(* Keys that toSnakeCase is to pass through *)

(* C21: toSnakeCase returns its argument unchanged whenever the argument   *)
(* starts with utm_ or is not a compact-convention key (utm followed by an *)
(* uppercase letter).                                                      *)
C21_SnakePassThrough ==
    (ret.op = "toSnakeCase"
        /\ (isSnakeCaseUtmKey(args.key) \/ ~isCamelCaseUtmKey(args.key))) =>
        ret.value = args.key

\* what does hold: a key with no uppercase letter that is not a name inherited
\* from Object.prototype is returned unchanged
LowercaseKeysPassThrough ==
    (ret.op = "toSnakeCase" /\ args.key \notin ObjectPrototypeKeys
        /\ \A i \in DOMAIN args.key : ~IsUpper(args.key[i])) =>
        ret.value = args.key


-----------------------------------------------------------------------------
(* React hook useUtmTracking.                                              *)
(* args holds the resolved configuration, the page location and the hook's *)
(* React state utmParameters (null or an object); mounted tells whether    *)
(* the first render and its effect have run.                               *)

NoParams == [given |-> FALSE]                       \* an undefined share context
SomeParams(p) == [given |-> TRUE, params |-> p]

\* hasUtmParameters: some value is neither undefined nor empty
checkHasParams(params) ==
    IF params.kind # "object" THEN FALSE
    ELSE \E i \in DOMAIN params.entries :
            params.entries[i].v # Undefined /\ params.entries[i].v # ""

\* { ...base, ...over }
RECURSIVE Spread(_, _)
Spread(base, over) ==
    IF over = <<>> THEN base
    ELSE Spread(ObjSet(base, Head(over).k, Head(over).v), Tail(over))

HookOptions(config) == [storageKey |-> config.storageKey, keyFormat |-> config.keyFormat]

\* what a call of the hook leaves: the React state and sessionStorage
HookState(utmParameters, store) == [utmParameters |-> utmParameters, storage |-> store]

\* the useState initializer; href = NoUrl: there is no window
InitialUtmParameters(config, href) ==
    IF href = NoUrl THEN NullResult
    ELSE IF config.enabled THEN getStoredUtmParameters(HookOptions(config))
    ELSE NullResult

\* faulty variant: the default parameter set is never used
capture_NoDefaults(config, href, utmParameters) ==
    IF ~config.enabled THEN HookState(utmParameters, storage)
    ELSE IF href = NoUrl THEN HookState(utmParameters, storage)
    ELSE LET params == captureUtmParameters(href, config.keyFormat,
                                            List(config.allowedParameters))
         IN  IF checkHasParams(JsonObject(params))
             THEN HookState(JsonObject(params),
                            storeUtmParameters(params, HookOptions(config)).storage)
             ELSE HookState(utmParameters, storage)

capture(config, href, utmParameters) ==
    IF ~config.enabled THEN HookState(utmParameters, storage)
    ELSE IF href = NoUrl THEN HookState(utmParameters, storage)
    ELSE LET params == captureUtmParameters(href, config.keyFormat,
                                            List(config.allowedParameters))
         IN  IF checkHasParams(JsonObject(params))
             THEN HookState(JsonObject(params),
                            storeUtmParameters(params, HookOptions(config)).storage)
             ELSE IF checkHasParams(JsonObject(config.defaultParams))
             THEN LET defaultParams == convertParams(config.defaultParams, config.keyFormat)
                  IN  HookState(JsonObject(defaultParams),
                                storeUtmParameters(defaultParams, HookOptions(config)).storage)
             ELSE HookState(utmParameters, storage)

clear(config) == HookState(NullResult, clearStoredUtmParameters(config.storageKey).storage)

\* the key the exclusion filter compares with the list
ExcludeSnakeKey(key) ==
    IF isSnakeCaseUtmKey(key) THEN key
    ELSE utm_ \o SnakeRest(SubSeq(key, 4, Len(key)))

\* captured < default share context < platform
MergedParams(config, utmParameters, platform) ==
    LET captured == IF checkHasParams(utmParameters) THEN utmParameters.entries ELSE <<>>
        default == config.shareContextParams["default"]
        withDefault == IF default.given THEN Spread(captured, default.params) ELSE captured
        platformParams == IF platform \in DOMAIN config.shareContextParams
                          THEN config.shareContextParams[platform] ELSE NoParams
    IN  IF platform # Undefined /\ platformParams.given
        THEN Spread(withDefault, platformParams.params)
        ELSE withDefault

ExcludeFiltered(config, mergedParams) ==
    IF Len(config.excludeFromShares) > 0
    THEN LET excludeSet == Elements(config.excludeFromShares)
         IN  SelectSeq(mergedParams,
                       LAMBDA e : ExcludeSnakeKey(e.k) \notin excludeSet /\ e.k \notin excludeSet)
    ELSE mergedParams

appendToUrl(config, utmParameters, url, platform) ==
    IF ~config.enabled \/ ~config.appendToShares THEN url
    ELSE LET mergedParams == ExcludeFiltered(config, MergedParams(config, utmParameters, platform))
         IN  IF ~checkHasParams(JsonObject(mergedParams)) THEN url
             ELSE appendUtmParameters(url, mergedParams, FALSE, FALSE)


-----------------------------------------------------------------------------
(* Hook specification: a page with a configuration and a location mounts   *)
(* the hook, then capture, clear and appendToUrl are called in any order   *)

PageUrl(query) == [base |-> "https://example.com", query |-> query, frag |-> <<>>]

\* window.location.href of the page
HookHrefs ==
    {PageUrl(<<>>),
     PageUrl(<<Piece(k_utm_a, "x", TRUE)>>),
     PageUrl(<<Piece(k_utm_a, "", FALSE)>>),
     PageUrl(<<Piece(k_utm_b, "x", TRUE)>>),
     PageUrl(<<Piece(k_utm_1, "x", TRUE)>>),
     PageUrl(<<Piece(k_utm_A, "z", TRUE)>>),
     PageUrl(<<Piece(k_utm_a, "x", TRUE), Piece(k_ref, "x", TRUE)>>)}

ShareUrl == [base |-> "https://example.com/p", query |-> <<>>, frag |-> <<>>]

Platforms == {Undefined, "linkedin", "twitter"}

\* one semantic key in either convention, with the value that tells the source
ShareContexts(value) ==
    {NoParams, SomeParams(<<[k |-> k_utm_a, v |-> value]>>),
     SomeParams(<<[k |-> k_utmA, v |-> value]>>)}

\* the default configuration, with an empty allowlist (no filter) in place of
\* the list of the six standard keys
BaseConfig ==
    [enabled |-> TRUE, keyFormat |-> "snake_case", storageKey |-> DEFAULT_STORAGE_KEY,
     captureOnMount |-> TRUE, appendToShares |-> TRUE,
     allowedParameters |-> <<>>, defaultParams |-> <<>>,
     shareContextParams |-> [p \in {"default", "linkedin"} |-> NoParams],
     excludeFromShares |-> <<>>]

\* configurations that differ in how parameters are captured
CaptureConfigs ==
    {[BaseConfig EXCEPT !.enabled = e, !.keyFormat = f, !.storageKey = s,
                           !.captureOnMount = m, !.allowedParameters = a,
                           !.defaultParams = d] :
        e \in BOOLEAN, f \in KeyFormats, s \in Slots, m \in BOOLEAN,
        a \in {<<>>, <<k_utm_a>>},
        d \in {<<>>, <<[k |-> k_utm_a, v |-> "d"]>>, <<[k |-> k_utmA, v |-> "d"]>>,
               <<[k |-> k_utm_a, v |-> ""]>>}}

\* configurations that differ in what is shared
ShareConfigs ==
    {[BaseConfig EXCEPT !.enabled = e, !.keyFormat = f, !.appendToShares = t,
                           !.shareContextParams = [p \in {"default", "linkedin"} |->
                                                      IF p = "default" THEN d ELSE l],
                           !.excludeFromShares = x] :
        e \in BOOLEAN, f \in KeyFormats, t \in BOOLEAN,
        d \in ShareContexts("d"), l \in ShareContexts("l"),
        x \in {<<>>, <<k_utm_a>>, <<k_utmA>>, <<k_utm_b>>}}

\* what the slot holds when the page is loaded
HookFound ==
    {Absent, JsonOther("invalid"),
     JsonObject(<<[k |-> k_utm_a, v |-> "c"], [k |-> k_utm_b, v |-> "c"]>>)}

InitHook ==
    /\ \E config \in CaptureConfigs \cup ShareConfigs, href \in HookHrefs \cup {NoUrl} :
          /\ config \in ShareConfigs \ CaptureConfigs => href = PageUrl(<<>>)
          /\ args = [fn |-> "hook", config |-> config, href |-> href,
                     mounted |-> FALSE, utmParameters |-> NullResult]
    /\ avail = IF args.href = NoUrl THEN Unavailable ELSE Available
    /\ \E found \in HookFound :
          storage = [s \in Slots |-> IF s = args.config.storageKey /\ avail = Available
                                     THEN found ELSE Absent]
    /\ ret = NoRet

\* the first render (the useState initializer) and its effect
Mount ==
    /\ args.fn = "hook" /\ ~args.mounted
    /\ LET initial == InitialUtmParameters(args.config, args.href)
           after == IF args.config.enabled /\ args.config.captureOnMount
                    THEN capture(args.config, args.href, initial)
                    ELSE HookState(initial, storage)
       IN  /\ args' = [args EXCEPT !.mounted = TRUE, !.utmParameters = after.utmParameters]
           /\ storage' = after.storage
           /\ ret' = [op |-> "mount", was |-> NullResult]
    /\ UNCHANGED avail

CallCapture ==
    /\ args.fn = "hook" /\ args.mounted
    /\ LET after == capture(args.config, args.href, args.utmParameters)
       IN  /\ args' = [args EXCEPT !.utmParameters = after.utmParameters]
           /\ storage' = after.storage
           /\ ret' = [op |-> "capture", was |-> args.utmParameters]
    /\ UNCHANGED avail

CallClear ==
    /\ args.fn = "hook" /\ args.mounted
    /\ LET after == clear(args.config)
       IN  /\ args' = [args EXCEPT !.utmParameters = after.utmParameters]
           /\ storage' = after.storage
           /\ ret' = [op |-> "clear", was |-> args.utmParameters]
    /\ UNCHANGED avail

CallAppendToUrl ==
    /\ args.fn = "hook" /\ args.mounted
    /\ \E platform \in Platforms :
          ret' = [op |-> "appendToUrl", platform |-> platform,
                  value |-> appendToUrl(args.config, args.utmParameters, ShareUrl, platform)]
    /\ UNCHANGED <<args, storage, avail>>

NextHook == Mount \/ CallCapture \/ CallClear \/ CallAppendToUrl

SpecHook == InitHook /\ [][NextHook]_vars


-----------------------------------------------------------------------------
(* Claims about the hook *)

Shared == ret.op = "appendToUrl"

\* the keys the returned URL carries, the share URL itself carrying none
GainedKeys == PieceKeys(ret.value.query) \cup PieceKeys(ret.value.frag)

(* C22: a key listed in excludeFromShares is never injected by appendToUrl, *)
(* whichever convention the list entry uses and whichever convention the   *)
(* captured or share-context parameter uses: the returned URL does not     *)
(* gain the underscore form of a listed key.                               *)
C22_ExcludedNeverShared ==
    Shared =>
        \A i \in DOMAIN args.config.excludeFromShares :
            toSnakeCase(args.config.excludeFromShares[i]) \notin GainedKeys

\* what does hold: a listed key is kept out when the list entry and every
\* parameter source spell it in the underscore convention
ExcludedWhenAllUnderscore ==
    (Shared /\ args.config.keyFormat = "snake_case"
        /\ \A p \in DOMAIN args.config.shareContextParams :
              LET c == args.config.shareContextParams[p]
              IN  c.given => \A k \in Keys(c.params) : isSnakeCaseUtmKey(k)) =>
        \A i \in DOMAIN args.config.excludeFromShares :
            isSnakeCaseUtmKey(args.config.excludeFromShares[i]) =>
                args.config.excludeFromShares[i] \notin GainedKeys


\* the three sources of a share, as parameter sets; an absent one is empty
CapturedSource == IF checkHasParams(args.utmParameters) THEN args.utmParameters.entries ELSE <<>>
DefaultSource ==
    LET c == args.config.shareContextParams["default"]
    IN  IF c.given THEN c.params ELSE <<>>
PlatformSource ==
    IF ret.platform \in DOMAIN args.config.shareContextParams
    THEN LET c == args.config.shareContextParams[ret.platform]
         IN  IF c.given THEN c.params ELSE <<>>
    ELSE <<>>

\* the value a source defines for the semantic key with underscore form k
SourceValue(source, k) == Get(toSnakeCaseParams(source), k)

\* platform, else default share context, else captured
ExpectedShareValue(k) ==
    IF SourceValue(PlatformSource, k) # Undefined THEN SourceValue(PlatformSource, k)
    ELSE IF SourceValue(DefaultSource, k) # Undefined THEN SourceValue(DefaultSource, k)
    ELSE SourceValue(CapturedSource, k)

Sharing ==
    /\ Shared /\ args.config.enabled /\ args.config.appendToShares
    /\ args.config.excludeFromShares = <<>>

SemanticKeys ==
    Keys(toSnakeCaseParams(CapturedSource)) \cup Keys(toSnakeCaseParams(DefaultSource))
        \cup Keys(toSnakeCaseParams(PlatformSource))

(* C23: for each semantic UTM key the URL returned by appendToUrl carries  *)
(* the platform's value when a platform is given and defines the key,      *)
(* otherwise the default share-context value when defined, otherwise the   *)
(* captured value, whichever convention each source is written in.         *)
C23_SharePrecedence ==
    Sharing => \A k \in SemanticKeys : ValuesOf(ret.value.query, k) = <<ExpectedShareValue(k)>>

\* what does hold: the precedence when the three sources are written in one
\* convention and the captured keys are UTM keys
PrecedenceInOneConvention ==
    (Sharing /\ IsParameterSet(CapturedSource)) =>
        \A k \in SemanticKeys :
            (\E f \in KeyFormats :
                \A source \in {CapturedSource, DefaultSource, PlatformSource} :
                    convertParams(source, f) = source) =>
                ValuesOf(ret.value.query, k) = <<ExpectedShareValue(k)>>


-----------------------------------------------------------------------------
(* Capture by the hook *)

\* the page has a location and the step is a call of capture
CaptureStep == ret'.op = "capture" /\ args.href # NoUrl

Slot == args.config.storageKey

\* the current URL has a UTM parameter with a non-empty value
UrlHasUtmValue ==
    \E i \in DOMAIN args.href.query :
        isSnakeCaseUtmKey(args.href.query[i].k) /\ args.href.query[i].v # ""

\* what captureUtmParameters gives for the page under the configuration
CapturedSet ==
    captureUtmParameters(args.href, args.config.keyFormat, List(args.config.allowedParameters))

ConvertedDefaults == convertParams(args.config.defaultParams, args.config.keyFormat)

HookUnchanged == args'.utmParameters = args.utmParameters /\ storage' = storage

\* the set becomes utmParameters and the given record is in the slot
HookTakes(set, record) ==
    args'.utmParameters = JsonObject(set) /\ storage'[Slot] = JsonObject(record)

(* C24 as claimed: a disabled hook's capture changes neither utmParameters *)
(* nor the slot; an enabled one writes the captured set to the slot and    *)
(* makes it utmParameters if the current URL has a UTM parameter with a    *)
(* non-empty value, otherwise does the same with the converted defaults if *)
(* one of them has a non-empty value, otherwise changes nothing.           *)
C24_HookCapture_AsClaimed ==
    [][CaptureStep =>
          IF ~args.config.enabled THEN HookUnchanged
          ELSE IF UrlHasUtmValue THEN HookTakes(CapturedSet, CapturedSet)
          ELSE IF checkHasParams(JsonObject(args.config.defaultParams))
          THEN HookTakes(ConvertedDefaults, ConvertedDefaults)
          ELSE HookUnchanged]_vars

(* C24 amended: the test is on the captured set, that is on the UTM        *)
(* parameters of the URL that pass the allowlist: if one of them has a     *)
(* non-empty value the captured set becomes utmParameters and its          *)
(* conversion to the configured format is written to the slot; otherwise   *)
(* the converted defaults are used if one of them has a non-empty value;   *)
(* otherwise, and for a disabled hook, nothing changes.                    *)
C24_HookCapture ==
    [][CaptureStep =>
          IF ~args.config.enabled THEN HookUnchanged
          ELSE IF checkHasParams(JsonObject(CapturedSet))
          THEN HookTakes(CapturedSet, convertParams(CapturedSet, args.config.keyFormat))
          ELSE IF checkHasParams(JsonObject(args.config.defaultParams))
          THEN HookTakes(ConvertedDefaults,
                         convertParams(ConvertedDefaults, args.config.keyFormat))
          ELSE HookUnchanged]_vars

\* the URL's only UTM parameter did not pass the allowlist, and the defaults,
\* written in the other convention, took the place of a cleared state
C24_Witness ==
    /\ ret.op = "capture" /\ ret.was = NullResult
    /\ args.config.enabled /\ args.config.keyFormat = "camelCase"
    /\ args.href = PageUrl(<<Piece(k_utm_b, "x", TRUE)>>)
    /\ args.config.allowedParameters = <<k_utm_a>>
    /\ args.config.defaultParams = <<[k |-> k_utm_a, v |-> "d"]>>
    /\ args.utmParameters = JsonObject(<<[k |-> k_utmA, v |-> "d"]>>)
    /\ storage[Slot] = JsonObject(<<[k |-> k_utmA, v |-> "d"]>>)


-----------------------------------------------------------------------------
(* Default protocol of the URL validator *)

\* A text is a sequence of characters.  The alphabet has a white-space
\* character, a letter and the two characters of "://".
MaxText == 3        \* longest text drawn from the alphabet
TextChars == {" ", "h", ":", "/"}
Texts == SeqsUpTo(TextChars, MaxText)

NumberArgument == <<"<number>">>     \* an argument whose typeof is not 'string'
IsString(x) == x # NumberArgument

SchemeSeparator == <<":", "/", "/">>
t_https == <<"h", "t", "t", "p", "s", ":", "/", "/">>
t_http == <<"h", "t", "t", "p", ":", "/", "/">>
t_padded == <<" ", ":", "/", "/">>      \* a protocol that begins with white space

EndsWith(s, p) == Len(s) >= Len(p) /\ SubSeq(s, Len(s) - Len(p) + 1, Len(s)) = p

Includes(s, p) == \E i \in 1 .. (Len(s) - Len(p) + 1) : SubSeq(s, i, i + Len(p) - 1) = p

RECURSIVE TrimStart(_)
TrimStart(s) == IF s # <<>> /\ Head(s) = " " THEN TrimStart(Tail(s)) ELSE s

RECURSIVE TrimEnd(_)
TrimEnd(s) ==
    IF s # <<>> /\ s[Len(s)] = " " THEN TrimEnd(SubSeq(s, 1, Len(s) - 1)) ELSE s

Trim(s) == TrimEnd(TrimStart(s))

hasProtocol(url) == Includes(url, SchemeSeparator)

\* the module variable defaultProtocol is the field of that name of args
normalizeUrl(url) ==
    IF ~IsString(url) THEN url
    ELSE LET trimmedUrl == Trim(url)
         IN  IF hasProtocol(trimmedUrl) THEN trimmedUrl
             ELSE args.defaultProtocol \o trimmedUrl

getDefaultProtocol == args.defaultProtocol

\* faulty variant: every string is accepted
setDefaultProtocol_AnyString(protocol) ==
    IF ~IsString(protocol)
    THEN [thrown |-> TRUE, defaultProtocol |-> args.defaultProtocol]
    ELSE [thrown |-> FALSE, defaultProtocol |-> protocol]

\* the outcome of the call and the default protocol after it
setDefaultProtocol(protocol) ==
    IF ~IsString(protocol) \/ ~EndsWith(protocol, SchemeSeparator)
    THEN [thrown |-> TRUE, defaultProtocol |-> args.defaultProtocol]
    ELSE [thrown |-> FALSE, defaultProtocol |-> protocol]

ProtocolArguments == Texts \cup {t_https, t_http, t_padded, NumberArgument}
UrlArguments == Texts \cup {NumberArgument}

\* lastAccepted records the argument of the last call of setDefaultProtocol
\* that returned
InitProtocol ==
    /\ args = [fn |-> "validator", defaultProtocol |-> t_https, lastAccepted |-> t_https]
    /\ ret = NoRet
    /\ storage = [s \in Slots |-> Absent]
    /\ avail = Available

CallSetDefaultProtocol ==
    \E protocol \in ProtocolArguments :
        LET out == setDefaultProtocol(protocol)
        IN  /\ args.fn = "validator"
            /\ args' = [args EXCEPT !.defaultProtocol = out.defaultProtocol,
                                    !.lastAccepted = IF out.thrown THEN @ ELSE protocol]
            /\ ret' = [op |-> "setDefaultProtocol", protocol |-> protocol,
                       thrown |-> out.thrown, was |-> args.defaultProtocol]
            /\ UNCHANGED <<storage, avail>>

CallGetDefaultProtocol ==
    /\ args.fn = "validator"
    /\ ret' = [op |-> "getDefaultProtocol", value |-> getDefaultProtocol]
    /\ UNCHANGED <<args, storage, avail>>

CallNormalizeUrl ==
    \E url \in UrlArguments :
        /\ args.fn = "validator"
        /\ ret' = [op |-> "normalizeUrl", url |-> url, value |-> normalizeUrl(url)]
        /\ UNCHANGED <<args, storage, avail>>

NextProtocol == CallSetDefaultProtocol \/ CallGetDefaultProtocol \/ CallNormalizeUrl

SpecProtocol == InitProtocol /\ [][NextProtocol]_vars

\* what the setter is to accept
EndsInSeparator(x) == IsString(x) /\ EndsWith(x, SchemeSeparator)

\* the setter raises for what it is not to accept, and then changes nothing
SetterRejects ==
    ret.op = "setDefaultProtocol" =>
        /\ ret.thrown <=> ~EndsInSeparator(ret.protocol)
        /\ ret.thrown => args.defaultProtocol = ret.was

\* the default protocol is the last accepted argument and ends in "://"
GetterGivesLastAccepted ==
    /\ getDefaultProtocol = args.lastAccepted
    /\ EndsInSeparator(getDefaultProtocol)
    /\ ret.op = "getDefaultProtocol" => ret.value = args.lastAccepted

NormalizeIdempotent == ret.op = "normalizeUrl" => normalizeUrl(ret.value) = ret.value

(* C25 as claimed: setDefaultProtocol raises for every argument that is    *)
(* not a string ending in "://" and then leaves the default protocol       *)
(* unchanged; getDefaultProtocol returns the last accepted argument,       *)
(* always a string ending in "://"; and normalizeUrl is idempotent.        *)
C25_DefaultProtocol_AsClaimed ==
    SetterRejects /\ GetterGivesLastAccepted /\ NormalizeIdempotent

(* C25 amended: as claimed for setDefaultProtocol and getDefaultProtocol;  *)
(* normalizeUrl is idempotent while the default protocol does not begin    *)
(* with white space.                                                       *)
C25_DefaultProtocol ==
    /\ SetterRejects
    /\ GetterGivesLastAccepted
    /\ TrimStart(args.defaultProtocol) = args.defaultProtocol => NormalizeIdempotent

\* a URL without protocol, and with white space around it, was normalized
\* after the default protocol had been replaced
C25_Witness ==
    /\ ret.op = "normalizeUrl" /\ ~hasProtocol(Trim(ret.url)) /\ IsString(ret.url)
    /\ ret.url # Trim(ret.url)
    /\ args.defaultProtocol = t_http
    /\ ret.value = args.defaultProtocol \o Trim(ret.url)


-----------------------------------------------------------------------------
(* Validation of a configuration object *)

\* A JavaScript value is named by what the validator can tell about it.
v_object == "object"                  \* a plain object
v_null == "null"
v_boolean == "boolean"
v_number == "number"
v_string == "string"                  \* a string other than the two key formats
v_stringArray == "array of strings"   \* the empty array included
v_numberArray == "array of numbers"

TypeOf(v) ==
    IF v \in {v_object, v_null, v_stringArray, v_numberArray} THEN "object"
    ELSE IF v \in {v_string, "snake_case", "camelCase"} THEN "string"
    ELSE v

IsArray(v) == v \in {v_stringArray, v_numberArray}
EveryString(v) == v = v_stringArray

ObjectConfig(fields) == [type |-> v_object, fields |-> fields]
OtherConfig(v) == [type |-> v]

\* the error list as the sequence of the messages pushed, in order
ErrorIf(cond, message) == IF cond THEN <<message>> ELSE <<>>

validateConfig(config) ==
    IF config.type = v_null \/ TypeOf(config.type) # "object" \/ IsArray(config.type)
    THEN <<"Config must be a non-null object">>
    ELSE LET c == config.fields
         IN  ErrorIf(c.enabled # Undefined /\ TypeOf(c.enabled) # "boolean",
                     "enabled must be a boolean")
             \o ErrorIf(c.keyFormat # Undefined /\ c.keyFormat # "snake_case"
                            /\ c.keyFormat # "camelCase",
                        "keyFormat must be \"snake_case\" or \"camelCase\"")
             \o ErrorIf(c.storageKey # Undefined /\ TypeOf(c.storageKey) # "string",
                        "storageKey must be a string")
             \o ErrorIf(c.captureOnMount # Undefined /\ TypeOf(c.captureOnMount) # "boolean",
                        "captureOnMount must be a boolean")
             \o ErrorIf(c.appendToShares # Undefined /\ TypeOf(c.appendToShares) # "boolean",
                        "appendToShares must be a boolean")
             \o (IF c.allowedParameters = Undefined THEN <<>>
                 ELSE IF ~IsArray(c.allowedParameters)
                 THEN <<"allowedParameters must be an array">>
                 ELSE ErrorIf(~EveryString(c.allowedParameters),
                              "allowedParameters must contain only strings"))
             \o (IF c.excludeFromShares = Undefined THEN <<>>
                 ELSE IF ~IsArray(c.excludeFromShares)
                 THEN <<"excludeFromShares must be an array">>
                 ELSE ErrorIf(~EveryString(c.excludeFromShares),
                              "excludeFromShares must contain only strings"))
             \o ErrorIf(c.defaultParams # Undefined
                            /\ (TypeOf(c.defaultParams) # "object" \/ c.defaultParams = v_null),
                        "defaultParams must be an object")
             \o ErrorIf(c.shareContextParams # Undefined
                            /\ (TypeOf(c.shareContextParams) # "object"
                                    \/ c.shareContextParams = v_null),
                        "shareContextParams must be an object")

\* the values the tests hand to each field, and an array or null for the two
\* object fields
ParamsFieldValues == {Undefined, v_object, v_string, v_null, v_stringArray}
ListFieldValues == {Undefined, v_stringArray, v_numberArray, v_object}

ValidatedConfigs ==
    {ObjectConfig(f) :
        f \in [enabled : {Undefined, v_boolean, v_string},
               keyFormat : {Undefined, "snake_case", "camelCase", v_string},
               storageKey : {v_string, v_number},
               captureOnMount : {v_boolean, v_string},
               appendToShares : {v_boolean, v_number},
               allowedParameters : ListFieldValues,
               excludeFromShares : {Undefined, v_stringArray, v_object},
               defaultParams : ParamsFieldValues,
               shareContextParams : ParamsFieldValues]}
        \cup {OtherConfig(v_null), OtherConfig(v_string), OtherConfig(v_stringArray)}

InitConfig ==
    /\ args \in {[fn |-> "validateConfig", config |-> c] : c \in ValidatedConfigs}
    /\ ret = NoRet
    /\ storage = [s \in Slots |-> Absent]
    /\ avail = Available

CallValidateConfig ==
    /\ args.fn = "validateConfig"
    /\ ret' = [op |-> "validateConfig", value |-> validateConfig(args.config)]
    /\ UNCHANGED <<args, storage, avail>>

NextConfig == CallValidateConfig

SpecConfig == InitConfig /\ [][NextConfig]_vars

Reported(message) == \E i \in DOMAIN ret.value : ret.value[i] = message

\* a value that is present and is not a plain object
NotPlainObject(v) == v # Undefined /\ v # v_object

\* the type each field is required to have when it is present
FieldTypeOK(c) ==
    /\ c.enabled \in {Undefined, v_boolean}
    /\ c.keyFormat \in {Undefined, "snake_case", "camelCase"}
    /\ TypeOf(c.storageKey) \in {Undefined, "string"}
    /\ c.captureOnMount \in {Undefined, v_boolean}
    /\ c.appendToShares \in {Undefined, v_boolean}
    /\ c.allowedParameters \in {Undefined, v_stringArray}
    /\ c.excludeFromShares \in {Undefined, v_stringArray}
    /\ c.defaultParams \in {Undefined, v_object}
    /\ c.shareContextParams \in {Undefined, v_object}

(* C26: validateConfig reports "shareContextParams must be an object"      *)
(* whenever shareContextParams is present and is not a plain object, an    *)
(* array included, and likewise for defaultParams; the error list is empty *)
(* only when every present field has the required type.                    *)
C26_ObjectFields ==
    (ret.op = "validateConfig" /\ args.config.type = v_object) =>
        LET c == args.config.fields
        IN  /\ NotPlainObject(c.shareContextParams) =>
                   Reported("shareContextParams must be an object")
            /\ NotPlainObject(c.defaultParams) => Reported("defaultParams must be an object")
            /\ ret.value = <<>> => FieldTypeOK(c)

\* the same for every value but an array, which the validator takes for an
\* object
NonArraysReported ==
    (ret.op = "validateConfig" /\ args.config.type = v_object) =>
        LET c == args.config.fields
        IN  /\ (NotPlainObject(c.shareContextParams) /\ ~IsArray(c.shareContextParams)) =>
                   Reported("shareContextParams must be an object")
            /\ (NotPlainObject(c.defaultParams) /\ ~IsArray(c.defaultParams)) =>
                   Reported("defaultParams must be an object")
            /\ (ret.value = <<>> /\ ~IsArray(c.shareContextParams)
                    /\ ~IsArray(c.defaultParams)) => FieldTypeOK(c)


-----------------------------------------------------------------------------
(* Slots of the session store.                                             *)
(* A page uses several slots, the one that has the name of the probe's     *)
(* test key among them, and calls the six operations of the store in any   *)
(* order.                                                                  *)

getRawStoredValue(storageKey) ==
    IF ~isStorageAvailable THEN NullResult
    ELSE LET stored == getItem(storageKey)
         IN  IF stored.raised THEN NullResult                      \* the catch branch
             ELSE IF stored.value = Absent THEN NullResult
             ELSE stored.value

isSessionStorageAvailable == avail = Available

SlotNames == Slots \cup {testKey}

SlotContents == {Absent, JsonOther("invalid"), JsonObject(TypicalParams)}

SlotParams == {TypicalParams, OtherParams, <<>>}

\* args.before is sessionStorage as it was when the last call began
InitSlots ==
    /\ storage \in [SlotNames -> SlotContents]
    /\ avail \in {Available, Unavailable, Raising}
    /\ args = [fn |-> "slots", before |-> storage]
    /\ ret = NoRet

SlotStore ==
    \E storageKey \in SlotNames, params \in SlotParams :
        LET result == storeUtmParameters(params, [storageKey |-> storageKey,
                                                  keyFormat |-> Undefined])
        IN  /\ args.fn = "slots"
            /\ storage' = result.storage
            /\ ret' = [op |-> "storeUtmParameters", storageKey |-> storageKey,
                       params |-> params]
            /\ args' = [args EXCEPT !.before = storage]
            /\ UNCHANGED avail

SlotClear ==
    \E storageKey \in SlotNames :
        /\ args.fn = "slots"
        /\ storage' = clearStoredUtmParameters(storageKey).storage
        /\ ret' = [op |-> "clearStoredUtmParameters", storageKey |-> storageKey]
        /\ args' = [args EXCEPT !.before = storage]
        /\ UNCHANGED avail

SlotGet ==
    \E storageKey \in SlotNames :
        /\ args.fn = "slots"
        /\ storage' = Probed
        /\ ret' = [op |-> "getStoredUtmParameters", storageKey |-> storageKey,
                   value |-> getStoredUtmParameters([storageKey |-> storageKey,
                                                     keyFormat |-> Undefined])]
        /\ args' = [args EXCEPT !.before = storage]
        /\ UNCHANGED avail

SlotHas ==
    \E storageKey \in SlotNames :
        /\ args.fn = "slots"
        /\ storage' = Probed
        /\ ret' = [op |-> "hasStoredUtmParameters", storageKey |-> storageKey,
                   value |-> hasStoredUtmParameters(storageKey)]
        /\ args' = [args EXCEPT !.before = storage]
        /\ UNCHANGED avail

SlotGetRaw ==
    \E storageKey \in SlotNames :
        /\ args.fn = "slots"
        /\ storage' = Probed
        /\ ret' = [op |-> "getRawStoredValue", storageKey |-> storageKey,
                   value |-> getRawStoredValue(storageKey)]
        /\ args' = [args EXCEPT !.before = storage]
        /\ UNCHANGED avail

SlotProbe ==
    /\ args.fn = "slots"
    /\ storage' = Probed
    /\ ret' = [op |-> "isSessionStorageAvailable", value |-> isSessionStorageAvailable]
    /\ args' = [args EXCEPT !.before = storage]
    /\ UNCHANGED avail

NextSlots == SlotStore \/ SlotClear \/ SlotGet \/ SlotHas \/ SlotGetRaw \/ SlotProbe

SpecSlots == InitSlots /\ [][NextSlots]_vars

Readers ==
    {"getStoredUtmParameters", "hasStoredUtmParameters", "getRawStoredValue",
     "isSessionStorageAvailable"}
Writers == {"storeUtmParameters", "clearStoredUtmParameters"}

\* the slots of names, other than the one the call was made with, are as
\* they were before the call
SlotsKept(names) ==
    /\ ret.op \in Readers => \A s \in names : storage[s] = args.before[s]
    /\ ret.op \in Writers =>
           \A s \in names \ {ret.storageKey} : storage[s] = args.before[s]

\* after a store of a set that is not empty, a get on the same name gives it
ReadBack(names) ==
    (ret.op = "storeUtmParameters" /\ ret.params # <<>> /\ avail = Available
         /\ ret.storageKey \in names)
        => getStoredUtmParameters([storageKey |-> ret.storageKey, keyFormat |-> Undefined])
               = JsonObject(ret.params)

(* C27: the operations that read leave the content of every slot           *)
(* unchanged, storeUtmParameters and clearStoredUtmParameters change no    *)
(* slot other than the one they are called with, and a record stored under *)
(* any slot name is read back by a later get on that name.                 *)
C27_OwnSlotOnly == SlotsKept(SlotNames) /\ ReadBack(SlotNames)

\* the same for every slot but the one of the probe's test key
OtherSlotsKept == SlotsKept(SlotNames \ {testKey}) /\ ReadBack(SlotNames \ {testKey})


-----------------------------------------------------------------------------
(* Components of the URL that the injector returns *)

\* scheme, credentials, host with port, and path of a URL of the model
BaseComponents(url) == ParseBase(url.base)

(* C28: for every parseable URL and both placements, the scheme, the       *)
(* credentials, the host, the port and the path of the URL returned by     *)
(* appendUtmParameters are those of the parsed input URL.                  *)
C28_BaseKept ==
    (Appended /\ Parseable(args.url)) => BaseComponents(ret.value) = BaseComponents(args.url)

\* what is kept in fact: everything when the fragment is written or nothing
\* is injected, everything but the credentials when the query is written
BaseKeptButCredentials ==
    (Appended /\ Parseable(args.url)) =>
        LET in == BaseComponents(args.url)
            out == BaseComponents(ret.value)
        IN  /\ out.protocol = in.protocol /\ out.host = in.host /\ out.pathname = in.pathname
            /\ out.userinfo = IF ~ret.toFragment /\ hasValidUtmEntries(args.utmParams)
                              THEN "" ELSE in.userinfo


-----------------------------------------------------------------------------
(* The hook's state and the store *)

\* what a get on the hook's slot, in the hook's format, gives now
StoredForHook == getStoredUtmParameters(HookOptions(args.config))

\* two results are the same object up to the order of the properties
SameResult(a, b) ==
    IF a = NullResult \/ b = NullResult THEN a = b
    ELSE /\ Keys(a.entries) = Keys(b.entries)
         /\ \A k \in Keys(a.entries) : Get(a.entries, k) = Get(b.entries, k)

HookSettled ==
    /\ args.fn = "hook" /\ args.mounted /\ args.config.enabled
    /\ args.href # NoUrl /\ avail = Available

LetterKeysOnly ==
    \A i \in DOMAIN args.href.query :
        isSnakeCaseUtmKey(args.href.query[i].k) => args.href.query[i].k \in {k_utm_a, k_utm_b}

\* the same when the keys of the page's URL have lower-case letters only
AgreesForLetterKeys ==
    (HookSettled /\ LetterKeysOnly) => SameResult(args.utmParameters, StoredForHook)


-----------------------------------------------------------------------------
(* Conversion of parameter sets.                                           *)
(* The sets have keys of both conventions, the two spellings of one        *)
(* semantic key among them, and values that are undefined.                 *)

k_utm_a_b == <<"u","t","m","_","a","_","b">>
k_utmAB == <<"u","t","m","A","B">>
k_utm_aB == <<"u","t","m","_","a","B">>

ConvertParamEntries ==
    [k : {k_utm_a, k_utmA, k_utm_b, k_utm_a_b, k_utmAB, k_utm_aB}, v : {"x", "y", Undefined}]

ConvertParamSets == {p \in SeqsUpTo(ConvertParamEntries, MaxParams) : DistinctKeys(p)}

InitConvert ==
    /\ args \in [fn : {"convertParams"}, params : ConvertParamSets]
    /\ ret = NoRet
    /\ storage = [s \in Slots |-> Absent]
    /\ avail = Available

CallConvertParams ==
    \E targetFormat \in KeyFormats :
        /\ args.fn = "convertParams"
        /\ ret' = [op |-> "convertParams", targetFormat |-> targetFormat,
                   value |-> convertParams(args.params, targetFormat)]
        /\ UNCHANGED <<args, storage, avail>>

NextConvert == CallConvertParams

SpecConvert == InitConvert /\ [][NextConvert]_vars

Converted == ret.op = "convertParams"

\* the converted form of a key under the format of the call
ConvertedKey(key) ==
    IF ret.targetFormat = "snake_case" THEN toSnakeCase(key) ELSE toCamelCase(key)

\* the positions of the input entries whose value is defined
Defined == {i \in DOMAIN args.params : args.params[i].v # Undefined}

\* the opposite conversion of a key of the result
BackKey(key) ==
    IF ret.targetFormat = "snake_case" THEN toCamelCase(key) ELSE toSnakeCase(key)

\* the opposite conversion gives every defined-valued input key back
RoundTripKeys == \A i \in Defined : BackKey(ConvertedKey(args.params[i].k)) = args.params[i].k

DistinctConvertedKeys ==
    \A i, j \in Defined : i # j => ConvertedKey(args.params[i].k) # ConvertedKey(args.params[j].k)

\* as many entries out as defined entries in, each value under the converted
\* form of its own key
NoEntryLost ==
    /\ Len(ret.value) = Cardinality(Defined)
    /\ \A i \in Defined : Get(ret.value, ConvertedKey(args.params[i].k)) = args.params[i].v

(* C30 as claimed: for every parameter set, sets that mix both conventions *)
(* included, distinct input keys with defined values are mapped to         *)
(* distinct output keys, so the result has as many entries as the input    *)
(* has defined-valued entries and each value is kept under the converted   *)
(* form of its own key.                                                    *)
C30_NoEntryLost_AsClaimed == Converted => (DistinctConvertedKeys /\ NoEntryLost)

(* C30 amended: the keys of the result are the converted forms of the      *)
(* defined-valued input keys, and each holds the value of the last input   *)
(* entry that converts to it; no entry is lost when the converted forms    *)
(* are pairwise distinct, which they are when the opposite conversion      *)
(* gives every input key back (they are not for a set that holds both      *)
(* spellings of one semantic key).                                         *)
C30_NoEntryLost ==
    Converted =>
        /\ Keys(ret.value) = {ConvertedKey(args.params[i].k) : i \in Defined}
        /\ Len(ret.value) = Cardinality(Keys(ret.value))
        /\ \A i \in Defined :
              (\A j \in Defined : j > i => ConvertedKey(args.params[j].k)
                                               # ConvertedKey(args.params[i].k))
                  => Get(ret.value, ConvertedKey(args.params[i].k)) = args.params[i].v
        /\ DistinctConvertedKeys => NoEntryLost
        /\ RoundTripKeys => DistinctConvertedKeys

\* both spellings of one semantic key, with different values, were converted:
\* one entry is left, with the later value
C30_Witness ==
    /\ Converted /\ ret.targetFormat = "snake_case"
    /\ args.params = <<[k |-> k_utm_a, v |-> "x"], [k |-> k_utmA, v |-> "y"]>>
    /\ ret.value = <<[k |-> k_utm_a, v |-> "y"]>>


=========================================================================
